---- MODULE Spec2Model ----
(***************************************************************************)
(* A model of the unit builder of the rune compiler                        *)
(* (crates/rune/src/compiling/unit_builder.rs): the static pools, the      *)
(* meta / function tables and the merge of assemblies into the unit.       *)
(***************************************************************************)
EXTENDS Integers, Sequences, FiniteSets, TLC

(***************************************************************************)
(* Bounds of the model.                                                    *)
(***************************************************************************)
\* Characters (and bytes) are 1..MaxChar.
MaxChar == 2
\* Total number of entries the three static pools may hold together.
MaxPool == 2
\* Number of values of the (deliberately narrow) content hash of the pools,
\* so that distinct payloads collide as with an injected custom hasher.
HashSpace == 3

(***************************************************************************)
(* Generic helpers for HashMap-like tables: a table is a function whose    *)
(* DOMAIN is the set of keys present.                                      *)
(***************************************************************************)
EmptyMap == << >>

Has(m, k) == k \in DOMAIN m

\* HashMap::insert: the value is stored whether or not the key was present.
Put(m, k, v) == [x \in (DOMAIN m) \cup {k} |-> IF x = k THEN v ELSE m[x]]

Range(s) == {s[i] : i \in DOMAIN s}

None == [some |-> FALSE]
Some(v) == [some |-> TRUE, val |-> v]

(***************************************************************************)
(* Payloads of the static pools.  A string is a sequence of characters, a  *)
(* byte string a sequence of bytes, an object-key schema a sequence of     *)
(* strings (the keys) in the order the caller gave them.                   *)
(***************************************************************************)
Chars == 1..MaxChar

Strings == {<<c>> : c \in Chars} \cup {<<c, d>> : c \in Chars, d \in Chars}

ByteStrings == {<<c>> : c \in Chars} \cup {<<c, d>> : c \in Chars, d \in Chars}

Keys == {<<c>> : c \in Chars}

KeyLists == {<< >>} \cup {<<k>> : k \in Keys} \cup {<<k, l>> : k \in Keys, l \in Keys}

\* Hash::of: a deterministic fingerprint that feeds the elements to the hasher
\* in order; the hasher state is narrowed to HashSpace values.
RECURSIVE HashOf(_, _)
HashOf(h, s) ==
    IF s = << >> THEN h
    ELSE HashOf((h * 2 + Head(s)) % HashSpace, Tail(s))

StringHash(s) == HashOf(0, s)

StaticBytesHash(b) == HashOf(1, b)

\* Hash::object_keys: every key is fed in order, each followed by its length
\* so that the key boundaries are part of the hash.
RECURSIVE ObjectKeysHashFrom(_, _)
ObjectKeysHashFrom(h, keys) ==
    IF keys = << >> THEN h
    ELSE ObjectKeysHashFrom(
            (HashOf(h, Head(keys)) * 2 + Len(Head(keys))) % HashSpace,
            Tail(keys))

ObjectKeysHash(keys) == ObjectKeysHashFrom(2, keys)


(***************************************************************************)
(* State: the fields of Inner (unit_builder.rs:849-895), the value the     *)
(* last call returned, and two records of what the calls returned so far.  *)
(***************************************************************************)
VARIABLES
    static_strings,          \* Vec<Arc<StaticString>>
    static_string_rev,       \* HashMap<Hash, usize>
    static_bytes,            \* Vec<Vec<u8>>
    static_bytes_rev,        \* HashMap<Hash, usize>
    static_object_keys,      \* Vec<Box<[String]>>
    static_object_keys_rev,  \* HashMap<Hash, usize>
    instructions,            \* Vec<Inst>
    meta,                    \* HashMap<Item, CompileMeta>
    functions,               \* HashMap<Hash, UnitFn>
    types,                   \* HashMap<Hash, UnitTypeInfo>
    functions_rev,           \* HashMap<usize, Hash>
    rtti,                    \* HashMap<Hash, Arc<Rtti>>
    variant_rtti,            \* HashMap<Hash, Arc<VariantRtti>>
    label_count,             \* usize
    required_functions,      \* HashMap<Hash, Vec<(Span, usize)>>
    debug,                   \* Option<Box<DebugInfo>>
    imports,                 \* HashMap<ImportKey, ImportEntry>
    handles,                 \* strong count of the Rc<RefCell<Inner>>
    assemblies,              \* the assemblies created and not yet merged
    uses,                    \* per required hash: every use site a merged assembly recorded
    disk,                    \* the clock, the source file and the cache file of the loader
    loading,                 \* the load that has created the cache file and is writing it
    inner,                   \* runtime Vec: inner: vec::Vec<Value>
    vec_pushed,              \* the values the pushes on the Vec have taken, in order
    walk,                    \* the iterator of recurse_paths: its queue and captured flag
    yielded,                 \* the items that iterator has returned, in order
    ncalls,                  \* number of calls made on the builder
    result,                  \* what the last call returned
    returned,                \* every <<pool, payload, slot>> a call returned Ok for
    first_seen               \* per pool: the payloads in order of their first Ok

pool_vars == <<static_strings, static_string_rev, static_bytes, static_bytes_rev,
               static_object_keys, static_object_keys_rev>>

pool_obs == <<returned, first_seen>>

unit_vars == <<instructions, meta, functions, types, functions_rev, rtti,
               variant_rtti, label_count, required_functions, debug>>

load_vars == <<disk, loading>>

vec_vars == <<inner, vec_pushed>>

walk_vars == <<walk, yielded>>

ext_vars == <<imports, handles, assemblies, uses, load_vars, vec_vars, walk_vars>>

builder_vars == <<pool_vars, pool_obs, unit_vars, imports, handles, assemblies, uses, ncalls>>

vars == <<pool_vars, pool_obs, unit_vars, ext_vars, ncalls, result>>

PoolNames == {"strings", "bytes", "object_keys"}

PoolOf(name) ==
    CASE name = "strings" -> static_strings
      [] name = "bytes" -> static_bytes
      [] name = "object_keys" -> static_object_keys

RevOf(name) ==
    CASE name = "strings" -> static_string_rev
      [] name = "bytes" -> static_bytes_rev
      [] name = "object_keys" -> static_object_keys_rev

PoolTotal == Len(static_strings) + Len(static_bytes) + Len(static_object_keys)

Ok(op, arg, val) == [op |-> op, arg |-> arg, ok |-> TRUE, val |-> val]

Err(op, arg, err) == [op |-> op, arg |-> arg, ok |-> FALSE, err |-> err]

ErrAt(op, arg, err, at) ==
    [op |-> op, arg |-> arg, ok |-> FALSE, err |-> err, at |-> at]

InitPools ==
    /\ static_strings = << >>
    /\ static_string_rev = EmptyMap
    /\ static_bytes = << >>
    /\ static_bytes_rev = EmptyMap
    /\ static_object_keys = << >>
    /\ static_object_keys_rev = EmptyMap
    /\ returned = {}
    /\ first_seen = [p \in PoolNames |-> << >>]

\* Inner::default(): every table empty, no debug info yet.
InitUnit ==
    /\ instructions = << >>
    /\ meta = EmptyMap
    /\ functions = EmptyMap
    /\ types = EmptyMap
    /\ functions_rev = EmptyMap
    /\ rtti = EmptyMap
    /\ variant_rtti = EmptyMap
    /\ label_count = 0
    /\ required_functions = EmptyMap
    /\ debug = None
    /\ ncalls = 0

\* Inner::default() behind one handle, no assembly created yet.
InitExt ==
    /\ imports = EmptyMap
    /\ handles = 1
    /\ assemblies = << >>
    /\ uses = EmptyMap
    /\ disk = [clock |-> 0, source |-> [stat |-> "NotFound"], cache |-> [stat |-> "NotFound"]]
    /\ loading = None
    /\ inner = << >>
    /\ vec_pushed = << >>
    /\ walk = None
    /\ yielded = << >>

(***************************************************************************)
(* The body shared by new_static_string, new_static_bytes and              *)
(* new_static_object_keys: look the hash up in the reverse map, compare    *)
(* the payload stored at that slot, otherwise push.  Slots count from 0,   *)
(* sequences from 1.  The value is the outcome and the pool and reverse    *)
(* map after the call.                                                     *)
(***************************************************************************)
pool_insert_no_compare(pool, rev, hash, current, missing, conflict) ==
    IF Has(rev, hash)
    THEN [out |-> [ok |-> TRUE, val |-> rev[hash]], pool |-> pool, rev |-> rev]
    ELSE [out |-> [ok |-> TRUE, val |-> Len(pool)],
          pool |-> Append(pool, current),
          rev |-> Put(rev, hash, Len(pool))]

pool_insert_always_push(pool, rev, hash, current, missing, conflict) ==
    [out |-> [ok |-> TRUE, val |-> Len(pool)],
     pool |-> Append(pool, current),
     rev |-> Put(rev, hash, Len(pool))]

pool_insert_store_on_conflict(pool, rev, hash, current, missing, conflict) ==
    IF Has(rev, hash)
    THEN LET existing_slot == rev[hash] IN
         IF existing_slot >= Len(pool)
         THEN [out |-> [ok |-> FALSE,
                        err |-> [kind |-> missing, hash |-> hash, slot |-> existing_slot]],
               pool |-> pool, rev |-> rev]
         ELSE IF pool[existing_slot + 1] # current
         THEN [out |-> [ok |-> FALSE,
                        err |-> [kind |-> conflict, hash |-> hash, current |-> current,
                                 existing |-> pool[existing_slot + 1]]],
               pool |-> [pool EXCEPT ![existing_slot + 1] = current], rev |-> rev]
         ELSE [out |-> [ok |-> TRUE, val |-> existing_slot], pool |-> pool, rev |-> rev]
    ELSE [out |-> [ok |-> TRUE, val |-> Len(pool)],
          pool |-> Append(pool, current),
          rev |-> Put(rev, hash, Len(pool))]

pool_insert(pool, rev, hash, current, missing, conflict) ==
    IF Has(rev, hash)
    THEN LET existing_slot == rev[hash] IN
         IF existing_slot >= Len(pool)
         THEN [out |-> [ok |-> FALSE,
                        err |-> [kind |-> missing, hash |-> hash, slot |-> existing_slot]],
               pool |-> pool, rev |-> rev]
         ELSE IF pool[existing_slot + 1] # current
         THEN [out |-> [ok |-> FALSE,
                        err |-> [kind |-> conflict, hash |-> hash, current |-> current,
                                 existing |-> pool[existing_slot + 1]]],
               pool |-> pool, rev |-> rev]
         ELSE [out |-> [ok |-> TRUE, val |-> existing_slot], pool |-> pool, rev |-> rev]
    ELSE [out |-> [ok |-> TRUE, val |-> Len(pool)],
          pool |-> Append(pool, current),
          rev |-> Put(rev, hash, Len(pool))]

\* The record of what the calls returned: kept from the returned value alone.
Observe(name, current, out) ==
    IF out.ok
    THEN /\ returned' = returned \cup {<<name, current, out.val>>}
         /\ first_seen' =
              IF current \in Range(first_seen[name]) THEN first_seen
              ELSE [first_seen EXCEPT ![name] = Append(@, current)]
    ELSE UNCHANGED <<returned, first_seen>>

Returned(op, arg, out) ==
    IF out.ok THEN Ok(op, arg, out.val) ELSE Err(op, arg, out.err)

\* A call that would grow a pool is made only while the pools hold fewer than
\* MaxPool entries.
MayGrow(rev, hash) == Has(rev, hash) \/ PoolTotal < MaxPool

new_static_string(current) ==
    LET hash == StringHash(current)
        r == pool_insert(static_strings, static_string_rev, hash, current,
                         "StaticStringMissing", "StaticStringHashConflict")
    IN /\ MayGrow(static_string_rev, hash)
       /\ static_strings' = r.pool
       /\ static_string_rev' = r.rev
       /\ result' = Returned("new_static_string", current, r.out)
       /\ Observe("strings", current, r.out)
       /\ UNCHANGED <<static_bytes, static_bytes_rev, static_object_keys,
                      static_object_keys_rev, unit_vars, ext_vars, ncalls>>

new_static_bytes(current) ==
    LET hash == StaticBytesHash(current)
        r == pool_insert(static_bytes, static_bytes_rev, hash, current,
                         "StaticBytesMissing", "StaticBytesHashConflict")
    IN /\ MayGrow(static_bytes_rev, hash)
       /\ static_bytes' = r.pool
       /\ static_bytes_rev' = r.rev
       /\ result' = Returned("new_static_bytes", current, r.out)
       /\ Observe("bytes", current, r.out)
       /\ UNCHANGED <<static_strings, static_string_rev, static_object_keys,
                      static_object_keys_rev, unit_vars, ext_vars, ncalls>>

\* `current` is collected from the iterator as given: it is not sorted.
new_static_object_keys(current) ==
    LET hash == ObjectKeysHash(current)
        r == pool_insert(static_object_keys, static_object_keys_rev, hash, current,
                         "StaticObjectKeysMissing", "StaticObjectKeysHashConflict")
    IN /\ MayGrow(static_object_keys_rev, hash)
       /\ static_object_keys' = r.pool
       /\ static_object_keys_rev' = r.rev
       /\ result' = Returned("new_static_object_keys", current, r.out)
       /\ Observe("object_keys", current, r.out)
       /\ UNCHANGED <<static_strings, static_string_rev, static_bytes,
                      static_bytes_rev, unit_vars, ext_vars, ncalls>>

NewStaticString == \E current \in Strings : new_static_string(current)

NewStaticBytes == \E current \in ByteStrings : new_static_bytes(current)

NewStaticObjectKeys == \E current \in KeyLists : new_static_object_keys(current)

InitPool ==
    /\ InitPools
    /\ InitUnit
    /\ InitExt
    /\ result = [op |-> "init", ok |-> TRUE]

NextPool == NewStaticString \/ NewStaticBytes \/ NewStaticObjectKeys

SpecPool == InitPool /\ [][NextPool]_vars


(***************************************************************************)
(* Properties of the static pools.                                         *)
(***************************************************************************)
ReturnedFor(name) == {t \in returned : t[1] = name}

\* C1: over any sequence of new_static_string calls, two calls with equal
\* content were given the same slot, and the string pool is as long as the
\* number of distinct contents the calls inserted.
C1_InterningIdempotent ==
    /\ \A t \in ReturnedFor("strings") : \A u \in ReturnedFor("strings") :
          t[2] = u[2] => t[3] = u[3]
    /\ Len(static_strings) = Cardinality({t[2] : t \in ReturnedFor("strings")})

\* C1 witness: two distinct strings are pooled and the last call re-inserted
\* the first of them, getting slot 0 again.
C1_Witness ==
    /\ Len(static_strings) = 2
    /\ result.op = "new_static_string"
    /\ result.ok
    /\ result.val = 0
    /\ result.arg = static_strings[1]

\* The call that led to the next state was `op` on a payload whose hash has a
\* reverse-map entry pointing at a different payload.
Collides(op, name, hash) ==
    /\ result'.op = op
    /\ Has(RevOf(name), hash)
    /\ RevOf(name)[hash] < Len(PoolOf(name))
    /\ PoolOf(name)[RevOf(name)[hash] + 1] # result'.arg

ConflictReturned(name, hash, conflict) ==
    /\ ~result'.ok
    /\ result'.err.kind = conflict
    /\ result'.err.hash = hash
    /\ result'.err.current = result'.arg
    /\ result'.err.existing = PoolOf(name)[RevOf(name)[hash] + 1]
    /\ pool_vars' = pool_vars

C2_Step ==
    /\ Collides("new_static_string", "strings", StringHash(result'.arg))
         => ConflictReturned("strings", StringHash(result'.arg),
                             "StaticStringHashConflict")
    /\ Collides("new_static_bytes", "bytes", StaticBytesHash(result'.arg))
         => ConflictReturned("bytes", StaticBytesHash(result'.arg),
                             "StaticBytesHashConflict")
    /\ Collides("new_static_object_keys", "object_keys", ObjectKeysHash(result'.arg))
         => ConflictReturned("object_keys", ObjectKeysHash(result'.arg),
                             "StaticObjectKeysHashConflict")

\* C2: a pool insertion whose hash has a reverse-map entry for a different
\* payload returns the Static*HashConflict error of its pool with both
\* payloads, and leaves the three pools and their reverse maps as they were.
C2_HashConflictLeavesPool == [][C2_Step]_vars

\* C2 witness: a byte string was just refused because a different byte string
\* with the same hash is pooled.
C2_Witness ==
    /\ result.op = "new_static_bytes"
    /\ ~result.ok
    /\ result.err.kind = "StaticBytesHashConflict"
    /\ result.err.existing \in Range(static_bytes)
    /\ result.err.existing # result.arg

\* C3: slots follow insertion order alone: each pool is the sequence of its
\* payloads in the order they were first inserted, and every slot a call has
\* returned still holds the payload it was returned for.
C3_SlotsFollowInsertionOrder ==
    /\ \A name \in PoolNames : PoolOf(name) = first_seen[name]
    /\ \A t \in returned :
          /\ t[3] < Len(PoolOf(t[1]))
          /\ PoolOf(t[1])[t[3] + 1] = t[2]

\* C3 witness: a second byte string got slot 1, the pool length before the call.
C3_Witness ==
    /\ Len(static_bytes) = 2
    /\ result.op = "new_static_bytes"
    /\ result.ok
    /\ result.val = 1
    /\ <<"bytes", static_bytes[1], 0>> \in returned

\* The default string sort: lexicographic order on the characters.
RECURSIVE StrLeq(_, _)
StrLeq(a, b) ==
    IF a = << >> THEN TRUE
    ELSE IF b = << >> THEN FALSE
    ELSE IF Head(a) # Head(b) THEN Head(a) < Head(b)
    ELSE StrLeq(Tail(a), Tail(b))

IsSorted(keys) == \A i \in 1..(Len(keys) - 1) : StrLeq(keys[i], keys[i + 1])

SameKeys(a, b) == Len(a) = Len(b) /\ Range(a) = Range(b)

\* C4: every schema in the object-keys pool is a sorted list of keys, and two
\* calls given the same keys in different orders were given the same slot.
C4_SchemasSorted ==
    /\ \A i \in 1..Len(static_object_keys) : IsSorted(static_object_keys[i])
    /\ \A t \in ReturnedFor("object_keys") : \A u \in ReturnedFor("object_keys") :
          SameKeys(t[2], u[2]) => t[3] = u[3]


(***************************************************************************)
(* Items, type hashes and compile metas.                                   *)
(***************************************************************************)
\* Calls made on one builder in the meta / function specification.
MaxCalls == 2
\* Hash::SEP, Hash::FUNCTION and Hash::INSTANCE_FUNCTION.
SEP == 127
FUNCTION == 2
INSTANCE_FUNCTION == 3

\* An item is a sequence of components; a component is an identifier, here a
\* number.  <<1, 2>> is the item 2 declared inside the item 1.
Items == {<<1>>, <<1, 2>>}

\* One write into the hasher (the 64-bit state is narrowed to 16 bits).
Feed(h, x) == (h * 257 + x + 1) % 65536

\* Hash::path: the kind, then every part followed by the separator.
RECURSIVE HashPathFrom(_, _)
HashPathFrom(h, path) ==
    IF path = << >> THEN h
    ELSE HashPathFrom(Feed(Feed(h, Head(path)), SEP), Tail(path))

HashPath(kind, path) == HashPathFrom(Feed(0, kind), path)

\* Hash::type_hash(item).
TypeHash(item) == HashPath(FUNCTION, item)

\* Hash::instance_function(type_of, name).
InstanceFunctionHash(type_of, name) ==
    Feed(Feed(Feed(Feed(0, INSTANCE_FUNCTION), type_of), SEP), name)

EmptyArgs == [kind |-> "EmptyArgs"]
TupleArgs(n) == [kind |-> "TupleArgs", n |-> n]
NamedArgs(names) == [kind |-> "NamedArgs", names |-> names]

\* DebugSignature { path, args }.
DebugSignature(path, args) == [path |-> path, args |-> args]

StructKinds == {"UnitStruct", "TupleStruct", "Struct"}
VariantKinds == {"UnitVariant", "TupleVariant", "StructVariant"}
PlainKinds == {"Function", "Closure", "AsyncBlock", "Macro", "Const", "ConstFn"}
MetaKinds == StructKinds \cup VariantKinds \cup {"Enum"} \cup PlainKinds

\* The metas the compiler hands to insert_meta: the hash of a unit or tuple
\* struct or variant is the type hash of its item; a tuple has one field.
Metas ==
    {[kind |-> k, item |-> i, hash |-> TypeHash(i), args |-> 1, enum_item |-> e] :
        k \in VariantKinds, i \in Items, e \in Items}
    \cup
    {[kind |-> k, item |-> i, hash |-> TypeHash(i), args |-> 1, enum_item |-> << >>] :
        k \in MetaKinds \ VariantKinds, i \in Items}

\* Inner::debug_info_mut: the debug info, created empty when absent.
debug_info_mut(d) ==
    IF d.some THEN d
    ELSE [some |-> TRUE, functions |-> EmptyMap, instructions |-> << >>]

DebugFunctions(d) == IF d.some THEN d.functions ELSE EmptyMap

DebugInstructions(d) == IF d.some THEN d.instructions ELSE << >>

(***************************************************************************)
(* insert_meta.  The tables are threaded through the steps of the matched  *)
(* branch in the order of the code; `err` is set by the first step whose   *)
(* insert found an entry, and every later step is skipped (the early       *)
(* return).  HashMap::insert stores the new value before the code looks at *)
(* what it returned.  `at` keeps the key of the last functions insert, for *)
(* the properties that speak of "that hash".                               *)
(***************************************************************************)
Tables ==
    [rtti |-> rtti, variant_rtti |-> variant_rtti, functions |-> functions,
     types |-> types, debug |-> debug, meta |-> meta, err |-> None, at |-> << >>]

insert_rtti_unchecked(t, hash, item) ==
    IF t.err.some THEN t
    ELSE [t EXCEPT !.rtti = Put(@, hash, [hash |-> hash, item |-> item])]

insert_rtti(t, hash, item) ==
    IF t.err.some THEN t
    ELSE [t EXCEPT !.rtti = Put(@, hash, [hash |-> hash, item |-> item]),
                   !.err = IF Has(t.rtti, hash)
                           THEN Some([kind |-> "TypeRttiConflict", hash |-> hash])
                           ELSE None]

insert_variant_rtti(t, hash, enum_hash, item) ==
    IF t.err.some THEN t
    ELSE [t EXCEPT !.variant_rtti =
                       Put(@, hash, [enum_hash |-> enum_hash, hash |-> hash, item |-> item]),
                   !.err = IF Has(t.variant_rtti, hash)
                           THEN Some([kind |-> "VariantRttiConflict", hash |-> hash])
                           ELSE None]

insert_function(t, hash, info, signature) ==
    IF t.err.some THEN t
    ELSE [t EXCEPT !.functions = Put(@, hash, info),
                   !.err = IF Has(t.functions, hash)
                           THEN Some([kind |-> "FunctionConflict",
                                      existing |-> signature])
                           ELSE None,
                   !.at = <<hash>>]

insert_type_own_hash(t, hash, type_of, item) ==
    IF t.err.some THEN t
    ELSE [t EXCEPT !.types = Put(@, hash, [hash |-> hash, type_of |-> hash]),
                   !.err = IF Has(t.types, hash)
                           THEN Some([kind |-> "TypeConflict", existing |-> item])
                           ELSE None]

insert_type(t, hash, type_of, item) ==
    IF t.err.some THEN t
    ELSE [t EXCEPT !.types = Put(@, hash, [hash |-> hash, type_of |-> type_of]),
                   !.err = IF Has(t.types, hash)
                           THEN Some([kind |-> "TypeConflict", existing |-> item])
                           ELSE None]

insert_debug_signature(t, hash, signature) ==
    IF t.err.some THEN t
    ELSE [t EXCEPT !.debug =
                       [debug_info_mut(@) EXCEPT !.functions = Put(@, hash, signature)]]

insert_meta_entry_unchecked(t, item, m) ==
    IF t.err.some THEN t
    ELSE [t EXCEPT !.meta = Put(@, item, m)]

insert_meta_entry(t, item, m) ==
    IF t.err.some THEN t
    ELSE [t EXCEPT !.meta = Put(@, item, m),
                   !.err = IF Has(t.meta, item)
                           THEN Some([kind |-> "MetaConflict", current |-> m,
                                      existing |-> t.meta[item]])
                           ELSE None]

\* The match on meta.kind (unit_builder.rs:446-703).
insert_meta_kind(t, m) ==
    CASE m.kind = "UnitStruct" ->
           LET signature == DebugSignature(m.item, EmptyArgs) IN
           insert_debug_signature(
             insert_type(
               insert_function(
                 insert_rtti(t, m.hash, m.item),
                 m.hash, [kind |-> "UnitStruct", hash |-> m.hash], signature),
               m.hash, m.hash, m.item),
             m.hash, signature)
      [] m.kind = "TupleStruct" ->
           LET signature == DebugSignature(m.item, TupleArgs(m.args)) IN
           insert_debug_signature(
             insert_type(
               insert_function(
                 insert_rtti(t, m.hash, m.item),
                 m.hash, [kind |-> "TupleStruct", hash |-> m.hash, args |-> m.args],
                 signature),
               m.hash, m.hash, m.item),
             m.hash, signature)
      [] m.kind = "Struct" ->
           LET hash == TypeHash(m.item) IN
           insert_type(insert_rtti(t, hash, m.item), hash, hash, m.item)
      [] m.kind = "UnitVariant" ->
           LET enum_hash == TypeHash(m.enum_item)
               signature == DebugSignature(m.item, EmptyArgs) IN
           insert_debug_signature(
             insert_type(
               insert_function(
                 insert_variant_rtti(t, m.hash, enum_hash, m.item),
                 m.hash, [kind |-> "UnitVariant", hash |-> m.hash], signature),
               m.hash, enum_hash, m.item),
             m.hash, signature)
      [] m.kind = "TupleVariant" ->
           LET enum_hash == TypeHash(m.enum_item)
               signature == DebugSignature(m.item, TupleArgs(m.args)) IN
           insert_debug_signature(
             insert_type(
               insert_function(
                 insert_variant_rtti(t, m.hash, enum_hash, m.item),
                 m.hash, [kind |-> "TupleVariant", hash |-> m.hash, args |-> m.args],
                 signature),
               m.hash, enum_hash, m.item),
             m.hash, signature)
      [] m.kind = "StructVariant" ->
           LET hash == TypeHash(m.item)
               enum_hash == TypeHash(m.enum_item) IN
           insert_type(insert_variant_rtti(t, hash, enum_hash, m.item),
                       hash, enum_hash, m.item)
      [] m.kind = "Enum" ->
           LET hash == TypeHash(m.item) IN
           insert_type(t, hash, hash, m.item)
      [] OTHER -> t

StoreTables(t) ==
    /\ rtti' = t.rtti
    /\ variant_rtti' = t.variant_rtti
    /\ functions' = t.functions
    /\ types' = t.types
    /\ debug' = t.debug
    /\ meta' = t.meta

insert_meta(m) ==
    LET t == insert_meta_entry(insert_meta_kind(Tables, m), m.item, m) IN
    /\ StoreTables(t)
    /\ result' = IF t.err.some THEN ErrAt("insert_meta", m, t.err.val, t.at)
                 ELSE Ok("insert_meta", m, 0)
    /\ UNCHANGED <<instructions, functions_rev, label_count, required_functions,
                   pool_vars, pool_obs, ext_vars>>

InsertMeta ==
    /\ ncalls < MaxCalls
    /\ ncalls' = ncalls + 1
    /\ \E m \in Metas : insert_meta(m)


(***************************************************************************)
(* Assemblies and their merge into the unit.                               *)
(***************************************************************************)
\* Width of usize / isize in bits (64 in the build, narrowed here).
WordBits == 4
\* Longest instruction vector built in the assembly specification.
MaxCode == 3
\* Labels allocated in the assembly specification.
MaxLabel == 2

RECURSIVE Pow2(_)
Pow2(n) == IF n = 0 THEN 1 ELSE 2 * Pow2(n - 1)

IsizeMax == Pow2(WordBits - 1) - 1

\* The value of an isize after a wrapping operation.
WrapIsize(x) == ((x + Pow2(WordBits - 1)) % Pow2(WordBits)) - Pow2(WordBits - 1)

JumpKinds == {"Jump", "JumpIf", "JumpIfNot", "JumpIfOrPop", "JumpIfNotOrPop",
              "JumpIfBranch", "PopAndJumpIfNot"}

\* translate_offset(span, base, label, labels).
translate_offset_from_base(base, label, labels) ==
    IF ~Has(labels, label)
    THEN [ok |-> FALSE, err |-> [kind |-> "MissingLabel", label |-> label]]
    ELSE IF base > IsizeMax
    THEN [ok |-> FALSE, err |-> [kind |-> "BaseOverflow"]]
    ELSE IF labels[label] > IsizeMax
    THEN [ok |-> FALSE, err |-> [kind |-> "OffsetOverflow"]]
    ELSE [ok |-> TRUE, val |-> WrapIsize(labels[label] - base)]

\* translate_offset with a saturating base + 1.
translate_offset_saturating(base, label, labels) ==
    IF ~Has(labels, label)
    THEN [ok |-> FALSE, err |-> [kind |-> "MissingLabel", label |-> label]]
    ELSE IF base > IsizeMax
    THEN [ok |-> FALSE, err |-> [kind |-> "BaseOverflow"]]
    ELSE IF labels[label] > IsizeMax
    THEN [ok |-> FALSE, err |-> [kind |-> "OffsetOverflow"]]
    ELSE [ok |-> TRUE,
          val |-> WrapIsize(labels[label]
                            - (IF base = IsizeMax THEN IsizeMax ELSE base + 1))]

\* translate_offset that widens the base before it looks the label up.
translate_offset_base_first(base, label, labels) ==
    IF base > IsizeMax
    THEN [ok |-> FALSE, err |-> [kind |-> "BaseOverflow"]]
    ELSE IF ~Has(labels, label)
    THEN [ok |-> FALSE, err |-> [kind |-> "MissingLabel", label |-> label]]
    ELSE IF labels[label] > IsizeMax
    THEN [ok |-> FALSE, err |-> [kind |-> "OffsetOverflow"]]
    ELSE [ok |-> TRUE, val |-> WrapIsize(labels[label] - WrapIsize(base + 1))]

translate_offset(base, label, labels) ==
    IF ~Has(labels, label)
    THEN [ok |-> FALSE, err |-> [kind |-> "MissingLabel", label |-> label]]
    ELSE IF base > IsizeMax
    THEN [ok |-> FALSE, err |-> [kind |-> "BaseOverflow"]]
    ELSE IF labels[label] > IsizeMax
    THEN [ok |-> FALSE, err |-> [kind |-> "OffsetOverflow"]]
    ELSE [ok |-> TRUE, val |-> WrapIsize(labels[label] - WrapIsize(base + 1))]

\* The instruction pushed for an assembly instruction whose jump offset is known.
Emit(inst, offset) ==
    CASE inst.kind = "Raw" -> inst.raw
      [] inst.kind = "JumpIfBranch" ->
           [op |-> "JumpIfBranch", branch |-> inst.branch, offset |-> offset]
      [] inst.kind = "PopAndJumpIfNot" ->
           [op |-> "PopAndJumpIfNot", count |-> inst.count, offset |-> offset]
      [] OTHER -> [op |-> inst.kind, offset |-> offset]

\* The comment of a debug record: the parts later joined with "; ".
Comment(inst, comments, pos) ==
    LET own == IF inst.kind \in JumpKinds THEN <<<<"label", inst.label>>>> ELSE << >>
    IN IF Has(comments, pos) THEN Some(own \o comments[pos])
       ELSE IF own = << >> THEN None ELSE Some(own)

\* HashMap::extend: every entry of `more` is inserted, replacing an entry
\* already stored under the same key.
Extend(m, more) ==
    [k \in (DOMAIN m) \cup (DOMAIN more) |-> IF k \in DOMAIN more THEN more[k] ELSE m[k]]

\* A debug record that drops the label.
DebugInstWithoutLabel(source_id, span, comment, label) ==
    [source_id |-> source_id, span |-> span, comment |-> comment, label |-> None]

\* DebugInst { source_id, span, comment, label }.
DebugInst(source_id, span, comment, label) ==
    [source_id |-> source_id, span |-> span, comment |-> comment, label |-> label]

\* The loop of add_assembly from position `pos` (0-based) on: `st` holds the
\* instruction vector and the debug info built so far.  A failed translation
\* returns at once with what was pushed before it.
RECURSIVE add_assembly_loop(_, _, _, _)
add_assembly_loop(st, source_id, assembly, pos) ==
    IF pos >= Len(assembly.instructions) THEN st
    ELSE LET entry == assembly.instructions[pos + 1]
             inst == entry.inst
             label == IF Has(assembly.labels_rev, pos)
                      THEN Some(assembly.labels_rev[pos]) ELSE None
             tr == IF inst.kind \in JumpKinds
                   THEN translate_offset(pos, inst.label, assembly.labels)
                   ELSE [ok |-> TRUE, val |-> 0]
         IN IF ~tr.ok THEN [st EXCEPT !.err = Some(tr.err)]
            ELSE add_assembly_loop(
                   [st EXCEPT
                      !.instructions = Append(@, Emit(inst, tr.val)),
                      !.debug = [debug_info_mut(@) EXCEPT
                                   !.instructions =
                                      Append(@, DebugInst(source_id, entry.span,
                                                          Comment(inst, assembly.comments, pos),
                                                          label))]],
                   source_id, assembly, pos + 1)

add_assembly_skip_first(st, source_id, assembly) ==
    add_assembly_loop(
        [st EXCEPT !.label_count = assembly.label_count,
                   !.required_functions = Extend(@, assembly.required_functions)],
        source_id, assembly, 1)

\* Inner::add_assembly(source_id, assembly) on the fields it reads and writes.
add_assembly(st, source_id, assembly) ==
    add_assembly_loop(
        [st EXCEPT !.label_count = assembly.label_count,
                   !.required_functions = Extend(@, assembly.required_functions)],
        source_id, assembly, 0)

Code(d) ==
    [instructions |-> instructions, debug |-> d, label_count |-> label_count,
     required_functions |-> required_functions, err |-> None]

StoreCode(st) ==
    /\ instructions' = st.instructions
    /\ debug' = st.debug
    /\ label_count' = st.label_count
    /\ required_functions' = st.required_functions

\* UnitFn::Offset { offset, call, args }.
Offset(offset, call, args) ==
    [kind |-> "Offset", offset |-> offset, call |-> call, args |-> args]

new_function(source_id, path, args, assembly, call, debug_args) ==
    LET offset == Len(instructions)
        hash == TypeHash(path)
        info == Offset(offset, call, args)
        signature == DebugSignature(path, NamedArgs(debug_args))
        arg == [source_id |-> source_id, path |-> path, args |-> args,
                assembly |-> assembly, call |-> call, debug_args |-> debug_args]
    IN /\ functions_rev' = Put(functions_rev, offset, hash)
       /\ functions' = Put(functions, hash, info)
       /\ IF Has(functions, hash)
          THEN /\ result' = ErrAt("new_function", arg,
                                  [kind |-> "FunctionConflict", existing |-> signature],
                                  <<hash>>)
               /\ UNCHANGED <<instructions, debug, label_count, required_functions>>
          ELSE LET d == [debug_info_mut(debug) EXCEPT !.functions = Put(@, hash, signature)]
                   st == add_assembly(Code(d), source_id, assembly)
               IN /\ StoreCode(st)
                  /\ result' = IF st.err.some THEN Err("new_function", arg, st.err.val)
                               ELSE Ok("new_function", arg, 0)
       /\ UNCHANGED <<meta, types, rtti, variant_rtti, pool_vars, pool_obs, imports, handles, load_vars, vec_vars, walk_vars>>

\* new_instance_function that registers the function under the instance hash only.
new_instance_function_one_key(source_id, path, type_of, name, args, assembly, call, debug_args) ==
    LET offset == Len(instructions)
        instance_fn == InstanceFunctionHash(type_of, name)
        hash == TypeHash(path)
        info == Offset(offset, call, args)
        signature == DebugSignature(path, NamedArgs(debug_args))
        arg == [source_id |-> source_id, path |-> path, type_of |-> type_of,
                name |-> name, args |-> args, assembly |-> assembly, call |-> call,
                debug_args |-> debug_args]
        conflict == [kind |-> "FunctionConflict", existing |-> signature]
    IN /\ functions' = Put(functions, instance_fn, info)
       /\ IF Has(functions, instance_fn)
          THEN /\ result' = ErrAt("new_instance_function", arg, conflict, <<instance_fn>>)
               /\ UNCHANGED <<instructions, debug, label_count, required_functions,
                              functions_rev>>
          ELSE LET d == [debug_info_mut(debug) EXCEPT
                            !.functions = Put(@, instance_fn, signature)]
                   st == add_assembly(Code(d), source_id, assembly)
               IN /\ functions_rev' = Put(functions_rev, offset, hash)
                  /\ StoreCode(st)
                  /\ result' = IF st.err.some
                               THEN Err("new_instance_function", arg, st.err.val)
                               ELSE Ok("new_instance_function", arg, 0)
       /\ UNCHANGED <<meta, types, rtti, variant_rtti, pool_vars, pool_obs, imports, handles, load_vars, vec_vars, walk_vars>>

new_instance_function(source_id, path, type_of, name, args, assembly, call, debug_args) ==
    LET offset == Len(instructions)
        instance_fn == InstanceFunctionHash(type_of, name)
        hash == TypeHash(path)
        info == Offset(offset, call, args)
        signature == DebugSignature(path, NamedArgs(debug_args))
        arg == [source_id |-> source_id, path |-> path, type_of |-> type_of,
                name |-> name, args |-> args, assembly |-> assembly, call |-> call,
                debug_args |-> debug_args]
        conflict == [kind |-> "FunctionConflict", existing |-> signature]
    IN /\ IF Has(functions, instance_fn)
          THEN /\ functions' = Put(functions, instance_fn, info)
               /\ result' = ErrAt("new_instance_function", arg, conflict, <<instance_fn>>)
               /\ UNCHANGED <<instructions, debug, label_count, required_functions,
                              functions_rev>>
          ELSE IF Has(Put(functions, instance_fn, info), hash)
          THEN /\ functions' = Put(Put(functions, instance_fn, info), hash, info)
               /\ result' = ErrAt("new_instance_function", arg, conflict, <<hash>>)
               /\ UNCHANGED <<instructions, debug, label_count, required_functions,
                              functions_rev>>
          ELSE LET d == [debug_info_mut(debug) EXCEPT
                            !.functions = Put(@, instance_fn, signature)]
                   st == add_assembly(Code(d), source_id, assembly)
               IN /\ functions' = Put(Put(functions, instance_fn, info), hash, info)
                  /\ functions_rev' = Put(functions_rev, offset, hash)
                  /\ StoreCode(st)
                  /\ result' = IF st.err.some
                               THEN Err("new_instance_function", arg, st.err.val)
                               ELSE Ok("new_instance_function", arg, 0)
       /\ UNCHANGED <<meta, types, rtti, variant_rtti, pool_vars, pool_obs, imports, handles, load_vars, vec_vars, walk_vars>>


(***************************************************************************)
(* The assemblies and calls the compiler makes.                            *)
(***************************************************************************)
\* The instruction kinds the generated assemblies are built from.
GenKinds == {"Raw", "Jump", "JumpIfBranch"}

AsmInst(kind, label) ==
    CASE kind = "Raw" -> [kind |-> "Raw", raw |-> [op |-> "Return"]]
      [] kind = "JumpIfBranch" -> [kind |-> kind, branch |-> 1, label |-> label]
      [] kind = "PopAndJumpIfNot" -> [kind |-> kind, count |-> 1, label |-> label]
      [] OTHER -> [kind |-> kind, label |-> label]

KindSeqs(kinds, n) == UNION {[1..k -> kinds] : k \in 0..n}

\* An assembly with the instructions `ks`, every jump aimed at `label`, which
\* is marked at position mark.val when mark is Some.  The span of an
\* instruction is its position in the assembly.
AssemblyOf(ks, label, mark, count) ==
    [instructions |-> [i \in 1..Len(ks) |->
                          [inst |-> AsmInst(ks[i], label), span |-> i - 1]],
     labels |-> IF mark.some THEN (label :> mark.val) ELSE EmptyMap,
     labels_rev |-> IF mark.some THEN (mark.val :> label) ELSE EmptyMap,
     comments |-> EmptyMap,
     label_count |-> count,
     required_functions |-> EmptyMap]

\* Assemblies of at most n instructions created by new_assembly when the
\* builder's label count is lc: either no label was allocated (and there is no
\* jump), or the label lc was allocated and marked at most once.
Assemblies(lc, n) ==
    {AssemblyOf(ks, lc, None, lc) : ks \in KindSeqs({"Raw"}, n)}
    \cup
    UNION {{AssemblyOf(ks, lc, mark, lc + 1) :
               mark \in {None} \cup {Some(q) : q \in 0..Len(ks)}} :
           ks \in KindSeqs(GenKinds, n)}

\* Assemblies without labels of at most one instruction.
SmallAssemblies(lc) == {AssemblyOf(ks, lc, None, lc) : ks \in KindSeqs({"Raw"}, 1)}

\* (args, call, debug_args) of the functions declared.
CallShapes ==
    {[args |-> 0, call |-> "Immediate", debug_args |-> << >>],
     [args |-> 1, call |-> "Async", debug_args |-> <<1>>]}

\* The functions declared in the assembly specification, each in its source.
FnDecls ==
    {[path |-> <<1>>, source_id |-> 0, args |-> 0, call |-> "Immediate",
      debug_args |-> << >>],
     [path |-> <<1, 2>>, source_id |-> 1, args |-> 1, call |-> "Async",
      debug_args |-> <<1>>]}

\* Instance functions: the method `name` of the type `type_of`, at `path`.
Methods ==
    {[path |-> <<1, 2>>, type_of |-> TypeHash(<<1>>), name |-> 2],
     [path |-> <<1>>, type_of |-> TypeHash(<<1, 2>>), name |-> 1]}

NewFunction ==
    /\ ncalls < MaxCalls
    /\ ncalls' = ncalls + 1
    /\ \E path \in Items, shape \in CallShapes, assembly \in SmallAssemblies(label_count) :
          new_function(0, path, shape.args, assembly, shape.call, shape.debug_args)
    /\ UNCHANGED <<assemblies, uses>>

NewInstanceFunction ==
    /\ ncalls < MaxCalls
    /\ ncalls' = ncalls + 1
    /\ \E m \in Methods, shape \in CallShapes, assembly \in SmallAssemblies(label_count) :
          new_instance_function(0, m.path, m.type_of, m.name, shape.args, assembly,
                                shape.call, shape.debug_args)
    /\ UNCHANGED <<assemblies, uses>>

InitBuilder ==
    /\ InitPools
    /\ InitUnit
    /\ InitExt
    /\ result = [op |-> "init", ok |-> TRUE]

NextUnit == InsertMeta \/ NewFunction \/ NewInstanceFunction

\* insert_meta, new_function and new_instance_function on one builder.
SpecUnit == InitBuilder /\ [][NextUnit]_vars

NextFn == NewFunction \/ NewInstanceFunction

\* new_function and new_instance_function alone on one builder.
SpecFn == InitBuilder /\ [][NextFn]_vars

\* Each function of FnDecls is declared once, with any assembly that fits.
NewFunctionAsm ==
    /\ UNCHANGED <<ncalls, assemblies, uses>>
    /\ \E f \in FnDecls :
          /\ ~Has(functions, TypeHash(f.path))
          /\ \E assembly \in Assemblies(label_count, MaxCode - Len(instructions)) :
                /\ assembly.label_count <= MaxLabel
                /\ new_function(f.source_id, f.path, f.args, assembly, f.call,
                                f.debug_args)

NextAsm == NewFunctionAsm

\* new_function with assemblies that jump, on one builder.
SpecAsm == InitBuilder /\ [][NextAsm]_vars


\* The largest usize.
UsizeMax == Pow2(WordBits) - 1

\* An assembly of `base` raw instructions followed by one jump of the given
\* kind to label 0, which is marked at mark.val when mark is Some.
JumpAssembly(kind, base, mark) ==
    AssemblyOf([i \in 1..(base + 1) |-> IF i <= base THEN "Raw" ELSE kind], 0, mark, 1)

\* One function whose single jump sits at any position of a usize and aims at
\* a label at any position of a usize, or at a label never marked.
NewFunctionJump ==
    /\ functions = EmptyMap
    /\ UNCHANGED <<ncalls, assemblies, uses>>
    /\ \E kind \in {"Jump", "JumpIf"}, base \in 0..UsizeMax,
          mark \in {None} \cup {Some(q) : q \in 0..UsizeMax} :
          new_function(0, <<1>>, 0, JumpAssembly(kind, base, mark), "Immediate", << >>)

NextJump == NewFunctionJump

\* new_function on an empty builder with one jump at any position.
SpecJump == InitBuilder /\ [][NextJump]_vars


(***************************************************************************)
(* Assemblies created by new_assembly and merged later.                    *)
(***************************************************************************)
\* Assemblies alive at the same time.
MaxPending == 2

\* Sequence s without its k-th element.
Without(s, k) == [i \in 1..(Len(s) - 1) |-> IF i < k THEN s[i] ELSE s[i + 1]]

\* UnitBuilder::new_assembly: an empty assembly that starts counting labels
\* at the builder's label count.
new_assembly ==
    /\ assemblies' = Append(assemblies, AssemblyOf(<< >>, 0, None, label_count))
    /\ result' = Ok("new_assembly", 0, label_count)
    /\ UNCHANGED <<pool_vars, pool_obs, unit_vars, imports, handles, uses, load_vars, vec_vars, walk_vars, ncalls>>

\* Assembly::new_label on the k-th live assembly: the label gets the
\* assembly's counter as its number and the counter is bumped.
new_label(k) ==
    /\ assemblies' = [assemblies EXCEPT ![k].label_count = @ + 1]
    /\ result' = Ok("new_label", k, assemblies[k].label_count)
    /\ UNCHANGED <<pool_vars, pool_obs, unit_vars, imports, handles, uses, load_vars, vec_vars, walk_vars, ncalls>>

NewAssembly == Len(assemblies) < MaxPending /\ new_assembly

NewLabel ==
    \E k \in 1..Len(assemblies) :
       assemblies[k].label_count < MaxLabel /\ new_label(k)

\* A function of FnDecls not declared yet is declared with a live assembly,
\* which the call consumes.
NewFunctionFrom ==
    \E k \in 1..Len(assemblies), f \in FnDecls :
       /\ ~Has(functions, TypeHash(f.path))
       /\ new_function(f.source_id, f.path, f.args, assemblies[k], f.call, f.debug_args)
       /\ assemblies' = Without(assemblies, k)
       /\ UNCHANGED <<ncalls, uses>>

NextLabel == NewAssembly \/ NewLabel \/ NewFunctionFrom

\* new_assembly, label allocation and new_function in any interleaving.
SpecLabel == InitBuilder /\ [][NextLabel]_vars


(***************************************************************************)
(* Required functions and linking.                                         *)
(***************************************************************************)
\* A function hash that no unit function has.
ExternHash == 7

\* The hashes assemblies require: the two unit functions and an external one.
RequiredHashes == {TypeHash(<<1>>), TypeHash(<<1, 2>>), ExternHash}

\* The contexts linked against, each given by the hashes its lookup resolves.
Contexts == {{}, {ExternHash}}

\* The assemblies compiled for the function f: one call instruction, and a
\* use site (span, source id) recorded for every hash of a set of required
\* hashes.
CallAssemblies(f, count) ==
    {[AssemblyOf(<<"Raw">>, 0, None, count) EXCEPT
         !.required_functions = [h \in hs |-> <<<<0, f.source_id>>>>]] :
       hs \in SUBSET RequiredHashes}

\* The use sites of all merged assemblies after one more was merged.
Record(seen, required) ==
    [h \in (DOMAIN seen) \cup (DOMAIN required) |->
        (IF h \in DOMAIN seen THEN seen[h] ELSE {})
        \cup (IF h \in DOMAIN required THEN Range(required[h]) ELSE {})]

NewFunctionCalls ==
    \E f \in FnDecls :
       /\ ~Has(functions, TypeHash(f.path))
       /\ \E assembly \in CallAssemblies(f, label_count) :
             /\ new_function(f.source_id, f.path, f.args, assembly, f.call, f.debug_args)
             /\ uses' = Record(uses, assembly.required_functions)
       /\ UNCHANGED <<ncalls, assemblies>>

\* Error::new(0, LinkerError::MissingFunction { hash, spans }).
MissingFunction(hash, spans) ==
    [source_id |-> 0, kind |-> "MissingFunction", hash |-> hash, spans |-> spans]

\* The orders in which a HashMap may iterate over the keys `keys`.
Orders(keys) ==
    {o \in [1..Cardinality(keys) -> keys] :
        \A i, j \in 1..Cardinality(keys) : o[i] = o[j] => i = j}

\* What link leaves behind: the error list it was given and the list after it.
Linked(context, errors, after) ==
    [op |-> "link", arg |-> [context |-> context, errors |-> errors], ok |-> TRUE,
     errors |-> after]

\* link that reports a required hash although the unit has the function.
link_ignores_unit(context, errors) ==
    LET missing == {h \in DOMAIN required_functions : h \notin context}
    IN /\ \E o \in Orders(missing) :
             result' = Linked(context, errors,
                              errors \o [i \in 1..Len(o) |->
                                           MissingFunction(o[i], required_functions[o[i]])])
       /\ UNCHANGED <<pool_vars, pool_obs, unit_vars, ext_vars, ncalls>>

\* UnitBuilder::link(context, errors): the value returned is `errors` after
\* the call.
link(context, errors) ==
    LET missing == {h \in DOMAIN required_functions :
                       ~Has(functions, h) /\ h \notin context}
    IN /\ \E o \in Orders(missing) :
             result' = Linked(context, errors,
                              errors \o [i \in 1..Len(o) |->
                                           MissingFunction(o[i], required_functions[o[i]])])
       /\ UNCHANGED <<pool_vars, pool_obs, unit_vars, ext_vars, ncalls>>

\* The errors collected before link is called.
EarlierErrors == {<< >>, <<[source_id |-> 1, kind |-> "CompileError"]>>}

Link == \E context \in Contexts, errors \in EarlierErrors : link(context, errors)

NextLink == NewFunctionCalls \/ Link

\* Functions that require other functions, and link.
SpecLink == InitBuilder /\ [][NextLink]_vars


(***************************************************************************)
(* Handles to the builder and finalization.                                *)
(***************************************************************************)
\* Handles to one builder alive at the same time.
MaxHandles == 2

\* Calls made on a builder before it is finalized.
MaxBuildCalls == 3

\* UnitBuilder derives Clone: one more handle to the same Inner.
clone ==
    /\ handles' = handles + 1
    /\ result' = [op |-> "clone", ok |-> TRUE]
    /\ UNCHANGED <<pool_vars, pool_obs, unit_vars, imports, assemblies, uses, load_vars, vec_vars, walk_vars, ncalls>>

\* The debug info of the unit: the builder's, with functions_rev moved in.
UnitDebug(d, rev) ==
    IF d.some
    THEN Some([functions |-> d.functions, instructions |-> d.instructions,
               functions_rev |-> rev])
    ELSE None

\* Unit::new(...) of the fields build hands over.
Unit(d) ==
    [instructions |-> instructions, functions |-> functions, types |-> types,
     static_strings |-> static_strings, static_bytes |-> static_bytes,
     static_object_keys |-> static_object_keys, rtti |-> rtti,
     variant_rtti |-> variant_rtti, debug |-> d]

\* build that does not look at the other handles.
build_shared ==
    /\ handles' = handles - 1
    /\ result' = [op |-> "build", ok |-> TRUE, handles |-> handles,
                  unit |-> Some(Unit(UnitDebug(debug, functions_rev)))]
    /\ UNCHANGED <<pool_vars, pool_obs, unit_vars, imports, assemblies, uses, load_vars, vec_vars, walk_vars, ncalls>>

\* UnitBuilder::build(self): the handle is consumed; Rc::try_unwrap gives the
\* Inner only to the last handle.  `handles` in the result is the strong
\* count the call found.
build ==
    /\ handles' = handles - 1
    /\ result' = [op |-> "build", ok |-> TRUE, handles |-> handles,
                  unit |-> IF handles = 1
                           THEN Some(Unit(UnitDebug(debug, functions_rev)))
                           ELSE None]
    /\ UNCHANGED <<pool_vars, pool_obs, unit_vars, imports, assemblies, uses, load_vars, vec_vars, walk_vars, ncalls>>

Alive == handles >= 1

Clone == Alive /\ handles < MaxHandles /\ clone

Build == Alive /\ build

\* The metas inserted before finalization: an enum and a unit struct of one item.
BuildMetas == {m \in Metas : m.kind \in {"Enum", "UnitStruct"} /\ m.item = <<1>>}

InsertMetaBuild ==
    /\ Alive
    /\ ncalls < MaxBuildCalls
    /\ ncalls' = ncalls + 1
    /\ \E m \in BuildMetas : insert_meta(m)

NewFunctionBuild ==
    /\ Alive
    /\ ncalls < MaxBuildCalls
    /\ ncalls' = ncalls + 1
    /\ \E f \in FnDecls, assembly \in SmallAssemblies(label_count) :
          new_function(f.source_id, f.path, f.args, assembly, f.call, f.debug_args)
    /\ UNCHANGED <<assemblies, uses>>

NewInstanceFunctionBuild ==
    /\ Alive
    /\ ncalls < MaxBuildCalls
    /\ ncalls' = ncalls + 1
    /\ \E m \in Methods, assembly \in SmallAssemblies(label_count) :
          new_instance_function(0, m.path, m.type_of, m.name, 0, assembly,
                                "Immediate", << >>)
    /\ UNCHANGED <<assemblies, uses>>

NextBuild ==
    InsertMetaBuild \/ NewFunctionBuild \/ NewInstanceFunctionBuild \/ Clone \/ Build

\* A builder is filled through any of its handles and finalized.
SpecBuild == InitBuilder /\ [][NextBuild]_vars


(***************************************************************************)
(* Imports.                                                                *)
(***************************************************************************)
\* Largest span handed to new_import.
MaxSpan == 1

\* ImportKey::new(item, component).
ImportKey(item, component) == [item |-> item, component |-> component]

\* ImportKey::component(component): an import at the root item.
ImportKeyComponent(component) == ImportKey(<< >>, component)

\* ImportEntry::of(path): an entry without a span.
ImportEntryOf(path) == [item |-> path, span |-> None]

\* The items the prelude imports, by the order of the inserts.
PreludeItems ==
    <<<<"std", "dbg">>, <<"std", "drop">>, <<"std", "is_readable">>,
      <<"std", "is_writable">>, <<"std", "panic">>, <<"std", "print">>,
      <<"std", "println">>, <<"std", "unit">>, <<"std", "bool">>, <<"std", "byte">>,
      <<"std", "char">>, <<"std", "int">>, <<"std", "float">>,
      <<"std", "object", "Object">>, <<"std", "vec", "Vec">>,
      <<"std", "string", "String">>, <<"std", "result", "Result">>,
      <<"std", "result", "Result", "Err">>, <<"std", "result", "Result", "Ok">>,
      <<"std", "option", "Option">>, <<"std", "option", "Option", "Some">>,
      <<"std", "option", "Option", "None">>>>

Last(path) == path[Len(path)]

\* The import table of UnitBuilder::with_default_prelude().
with_default_prelude ==
    [k \in {ImportKeyComponent(Last(PreludeItems[i])) : i \in DOMAIN PreludeItems} |->
        ImportEntryOf(CHOOSE path \in Range(PreludeItems) : Last(path) = k.component)]

\* new_import that keeps an entry already stored under the key.
new_import_keep_existing(at, path, span, source_id) ==
    /\ imports' = IF path # << >> /\ ~Has(imports, ImportKey(at, Last(path)))
                  THEN Put(imports, ImportKey(at, Last(path)),
                           [item |-> path, span |-> Some(<<span, source_id>>)])
                  ELSE imports
    /\ result' = Ok("new_import",
                    [at |-> at, path |-> path, span |-> span, source_id |-> source_id], 0)
    /\ UNCHANGED <<pool_vars, pool_obs, unit_vars, handles, assemblies, uses, load_vars, vec_vars, walk_vars, ncalls>>

\* UnitBuilder::new_import(at, path, span, source_id).
new_import(at, path, span, source_id) ==
    /\ imports' = IF path # << >>
                  THEN Put(imports, ImportKey(at, Last(path)),
                           [item |-> path, span |-> Some(<<span, source_id>>)])
                  ELSE imports
    /\ result' = Ok("new_import",
                    [at |-> at, path |-> path, span |-> span, source_id |-> source_id], 0)
    /\ UNCHANGED <<pool_vars, pool_obs, unit_vars, handles, assemblies, uses, load_vars, vec_vars, walk_vars, ncalls>>

\* The modules that import and the paths they import.
ImportSites == {<< >>, <<"a">>}

ImportPaths == {<< >>, <<"std", "dbg">>, <<"a", "dbg">>, <<"a", "b">>}

NewImport ==
    \E at \in ImportSites, path \in ImportPaths, span \in 0..MaxSpan :
       new_import(at, path, span, 0)

\* A builder made by Default or by with_default_prelude.
InitImport ==
    /\ InitPools
    /\ InitUnit
    /\ imports \in {EmptyMap, with_default_prelude}
    /\ handles = 1
    /\ assemblies = << >>
    /\ uses = EmptyMap
    /\ disk = [clock |-> 0, source |-> [stat |-> "NotFound"], cache |-> [stat |-> "NotFound"]]
    /\ loading = None
    /\ inner = << >>
    /\ vec_pushed = << >>
    /\ walk = None
    /\ yielded = << >>
    /\ result = [op |-> "init", ok |-> TRUE]

NextImport == NewImport

SpecImport == InitImport /\ [][NextImport]_vars


(***************************************************************************)
(* Path lookup through the imports.                                        *)
(***************************************************************************)
\* Item::pop: the item without its last component.
Pop(item) == SubSeq(item, 1, Len(item) - 1)

\* lookup_import_by_name that looks at the base itself only.
lookup_import_by_name_base_only(base, local) ==
    IF Has(imports, ImportKey(base, local))
    THEN Some(imports[ImportKey(base, local)].item)
    ELSE None

\* Inner::lookup_import_by_name(base, local): the loop over base and its
\* prefixes, which ends when the empty item has been tried.
RECURSIVE lookup_import_by_name(_, _)
lookup_import_by_name(base, local) ==
    IF Has(imports, ImportKey(base, local))
    THEN Some(imports[ImportKey(base, local)].item)
    ELSE IF base = << >> THEN None
    ELSE lookup_import_by_name(Pop(base), local)

\* A path segment that is an identifier, and one that is not.
Ident(name) == [ident |-> TRUE, name |-> name]

NotIdent == [ident |-> FALSE]

\* The loop of convert_path over path.rest: each identifier is pushed, any
\* other segment ends the call with an error.
RECURSIVE push_rest(_, _)
push_rest(imported, rest) ==
    IF rest = << >> THEN [ok |-> TRUE, item |-> imported]
    ELSE IF ~Head(rest).ident THEN [ok |-> FALSE]
    ELSE push_rest(Append(imported, Head(rest).name), Tail(rest))

\* UnitBuilder::convert_path(base, path): path is (first, rest).
convert_path(base, path) ==
    LET arg == [base |-> base, path |-> path]
        found == lookup_import_by_name(base, path.first.name)
        imported == IF found.some THEN found.val ELSE <<path.first.name>>
        out == push_rest(imported, path.rest)
    IN /\ result' = IF ~path.first.ident \/ ~out.ok
                    THEN Err("convert_path", arg, [kind |-> "UnsupportedPath"])
                    ELSE [op |-> "convert_path", arg |-> arg, ok |-> TRUE,
                          item |-> out.item]
       /\ UNCHANGED <<pool_vars, pool_obs, unit_vars, ext_vars, ncalls>>

\* The modules paths are written in, and the paths written.
PathBases == {<< >>, <<"a">>, <<"a", "b">>, <<"c">>}

AstPaths ==
    {[first |-> f, rest |-> r] :
       f \in {Ident("x"), Ident("dbg"), NotIdent},
       r \in {<< >>, <<Ident("y")>>, <<Ident("y"), Ident("z")>>, <<NotIdent>>}}

ConvertPath == \E base \in PathBases, path \in AstPaths : convert_path(base, path)

\* Imports of an item named x made at the root, in a and in a::b.
NewImportPath ==
    \E at \in {<< >>, <<"a">>, <<"a", "b">>}, path \in {<<"m", "x">>, <<"n", "x">>} :
       new_import(at, path, 0, 0)

NextPath == NewImportPath \/ ConvertPath

SpecPath == InitImport /\ [][NextPath]_vars


(***************************************************************************)
(* The loader and its bytecode cache (rune-cli/src/loader.rs).             *)
(***************************************************************************)
\* Latest time of the clock that stamps the files.
MaxClock == 2

\* Versions of the source text that compile.
MaxText == 2

\* A file that does not exist, and one whose metadata cannot be read.
Absent == [stat |-> "NotFound"]

Denied == [stat |-> "PermissionDenied"]

\* The source texts: the versions 1..MaxText compile, version 0 does not.
Texts == 0..MaxText

SourceFile(mtime, text) == [stat |-> "ok", mtime |-> mtime, text |-> text]

CacheFile(mtime, bytes) == [stat |-> "ok", mtime |-> mtime, bytes |-> bytes]

\* bincode::serialize_into(f, &unit): a length, then the unit.
Serialize(unit) == <<2, unit.of>>

\* bincode::deserialize_from::<_, Unit>(f): the bytes must be a whole
\* serialization.
Deserialize(bytes) ==
    IF Len(bytes) = 2 /\ bytes[1] = 2 THEN Some([of |-> bytes[2]]) ELSE None

\* Bytes that are a whole file and no serialization of a unit.
Junk == <<0>>

\* rune::prepare(..).build(): the unit of a text that compiles.
Compile(text) == IF text = 0 THEN None ELSE Some([of |-> text])

\* should_cache_be_used with a comparison that takes equal times as fresh.
should_cache_be_used_or_equal(source, cached) ==
    IF source.stat # "ok" THEN [ok |-> FALSE, err |-> [kind |-> source.stat]]
    ELSE IF cached.stat = "NotFound" THEN [ok |-> TRUE, fresh |-> FALSE]
    ELSE IF cached.stat # "ok" THEN [ok |-> FALSE, err |-> [kind |-> cached.stat]]
    ELSE [ok |-> TRUE, fresh |-> source.mtime <= cached.mtime]

\* should_cache_be_used(source, cached) on the two files the paths name.
should_cache_be_used(source, cached) ==
    IF source.stat # "ok" THEN [ok |-> FALSE, err |-> [kind |-> source.stat]]
    ELSE IF cached.stat = "NotFound" THEN [ok |-> TRUE, fresh |-> FALSE]
    ELSE IF cached.stat # "ok" THEN [ok |-> FALSE, err |-> [kind |-> cached.stat]]
    ELSE [ok |-> TRUE, fresh |-> source.mtime < cached.mtime]

\* The source files and the cache files a call may find.
SourceFiles ==
    {Absent, Denied} \cup {SourceFile(t, x) : t \in 0..MaxClock, x \in Texts}

CacheFiles ==
    {Absent, Denied}
    \cup {CacheFile(t, b) : t \in 0..MaxClock, b \in {Junk, Serialize([of |-> 1])}}

ShouldCacheBeUsed ==
    /\ result.op = "init"
    /\ result' = [op |-> "should_cache_be_used", ok |-> TRUE,
                  out |-> should_cache_be_used(disk.source, disk.cache)]
    /\ UNCHANGED <<builder_vars, load_vars, vec_vars, walk_vars>>

InitFresh ==
    /\ InitPools
    /\ InitUnit
    /\ imports = EmptyMap
    /\ handles = 1
    /\ assemblies = << >>
    /\ uses = EmptyMap
    /\ loading = None
    /\ inner = << >>
    /\ vec_pushed = << >>
    /\ walk = None
    /\ yielded = << >>
    /\ \E source \in SourceFiles, cache \in CacheFiles :
          disk = [clock |-> MaxClock, source |-> source, cache |-> cache]
    /\ result = [op |-> "init", ok |-> TRUE]

NextFresh == ShouldCacheBeUsed

\* should_cache_be_used on any pair of files.
SpecFresh == InitFresh /\ [][NextFresh]_vars


\* What a finished load leaves: `unit` is the unit of the returned Load (None
\* for an error), `compiled` tells whether rune::prepare(..).build() ran,
\* `source` and `before` are the two files as the call found them.
\* FunctionVisitor::into_functions after a build: the functions of the source
\* that carry the attribute; version n of the source has n - 1 of them.
into_functions(text) == [i \in 1..(text - 1) |-> i]

\* A discovery that is also run for a cached unit.
load_functions_always(unit, compiled, source) ==
    IF unit.some THEN into_functions(source.text) ELSE << >>

\* `(unit, Default::default())` for a cached unit, `functions.into_functions()`
\* after a build.
load_functions(unit, compiled, source) ==
    IF unit.some /\ compiled THEN into_functions(source.text) ELSE << >>

Loaded(bytecode, unit, compiled, source, before, err) ==
    [op |-> "load", arg |-> [bytecode |-> bytecode], ok |-> unit.some, unit |-> unit,
     compiled |-> compiled, source |-> source, before |-> before, err |-> err,
     functions |-> load_functions(unit, compiled, source)]

\* A load that has created the cache file and has not finished writing it.
Writing(bytecode, unit, source, before) ==
    [op |-> "load_writing", arg |-> [bytecode |-> bytecode], ok |-> TRUE,
     unit |-> unit, source |-> source, before |-> before]

\* The cache never used.
maybe_unit_ignores_cache(use_cache, cache) == [ok |-> TRUE, unit |-> None]

\* The cached unit with a failed deserialization returned as an error.
maybe_unit_strict(use_cache, cache) ==
    IF use_cache
    THEN [ok |-> Deserialize(cache.bytes).some, unit |-> Deserialize(cache.bytes)]
    ELSE [ok |-> TRUE, unit |-> None]

\* `maybe_unit` of load (lines 41-56): the cached unit when the cache is used
\* and deserializes, None otherwise; only File::open can fail, and the file
\* was just found.
maybe_unit(use_cache, cache) ==
    IF use_cache THEN [ok |-> TRUE, unit |-> Deserialize(cache.bytes)]
    ELSE [ok |-> TRUE, unit |-> None]

\* The cache file created whatever the compile returned.
creates_cache_always(bytecode, built) == bytecode

\* Lines 81-85: File::create is reached when `result?` did not return and
\* options.bytecode is set.
creates_cache(bytecode, built) == built.some /\ bytecode

\* load(io, context, args, options, path, attribute) up to File::create:
\* lines 30-85.
load_begin(bytecode) ==
    LET source == disk.source
        before == disk.cache
        fresh == IF bytecode THEN should_cache_be_used(source, before)
                 ELSE [ok |-> TRUE, fresh |-> FALSE]
        cached == maybe_unit(fresh.ok /\ fresh.fresh, before)
        built == Compile(source.text)
    IN IF source.stat # "ok"
       THEN /\ result' = Loaded(bytecode, None, FALSE, source, before, "cannot read file")
            /\ UNCHANGED load_vars
       ELSE IF ~fresh.ok
       THEN /\ result' = Loaded(bytecode, None, FALSE, source, before, fresh.err.kind)
            /\ UNCHANGED load_vars
       ELSE IF ~cached.ok
       THEN /\ result' = Loaded(bytecode, None, FALSE, source, before, "open")
            /\ UNCHANGED load_vars
       ELSE IF cached.unit.some
       THEN /\ result' = Loaded(bytecode, cached.unit, FALSE, source, before, "")
            /\ UNCHANGED load_vars
       ELSE /\ disk' = IF creates_cache(bytecode, built)
                       THEN [disk EXCEPT !.cache = CacheFile(disk.clock, << >>)]
                       ELSE disk
            /\ IF ~built.some
               THEN /\ result' = Loaded(bytecode, None, TRUE, source, before, "compile")
                    /\ UNCHANGED loading
               ELSE IF ~bytecode
               THEN /\ result' = Loaded(bytecode, built, TRUE, source, before, "")
                    /\ UNCHANGED loading
               ELSE /\ loading' = Some([unit |-> built.val, source |-> source,
                                        before |-> before])
                    /\ result' = Writing(bytecode, built.val, source, before)

\* bincode::serialize_into on the created file, one write at a time, and the
\* return of load after the last one: lines 86-97.
load_write ==
    LET bytes == Serialize(loading.val.unit)
        n == Len(disk.cache.bytes)
    IN /\ disk' = [disk EXCEPT !.cache = CacheFile(disk.clock, SubSeq(bytes, 1, n + 1))]
       /\ IF n + 1 = Len(bytes)
          THEN /\ loading' = None
               /\ result' = Loaded(TRUE, Some(loading.val.unit), TRUE,
                                   loading.val.source, loading.val.before, "")
          ELSE /\ UNCHANGED loading
               /\ result' = Writing(TRUE, loading.val.unit, loading.val.source,
                                    loading.val.before)

LoadBegin ==
    /\ loading = None
    /\ \E bytecode \in BOOLEAN : load_begin(bytecode)
    /\ UNCHANGED <<builder_vars, vec_vars, walk_vars>>

LoadWrite ==
    /\ loading.some
    /\ load_write
    /\ UNCHANGED <<builder_vars, vec_vars, walk_vars>>

\* Another process reads the cache file.
ReadCache ==
    /\ result' = [op |-> "read_cache", ok |-> disk.cache.stat = "ok",
                  file |-> disk.cache, writing |-> loading]
    /\ UNCHANGED <<builder_vars, load_vars, vec_vars, walk_vars>>

\* The user saves a version of the source.
EditSource ==
    /\ \E text \in Texts :
          /\ disk.source.stat = "ok" => text # disk.source.text
          /\ disk' = [disk EXCEPT !.source = SourceFile(disk.clock, text)]
    /\ result' = [op |-> "edit", ok |-> TRUE]
    /\ UNCHANGED <<builder_vars, loading, vec_vars, walk_vars>>

Tick ==
    /\ disk.clock < MaxClock
    /\ disk' = [disk EXCEPT !.clock = @ + 1]
    /\ UNCHANGED <<builder_vars, loading, vec_vars, walk_vars, result>>

\* A source saved at time 0 or missing; no cache, or a cache written at time
\* 0 or 1 that holds the unit of version 1 or is corrupt.
InitLoad ==
    /\ InitPools
    /\ InitUnit
    /\ imports = EmptyMap
    /\ handles = 1
    /\ assemblies = << >>
    /\ uses = EmptyMap
    /\ loading = None
    /\ inner = << >>
    /\ vec_pushed = << >>
    /\ walk = None
    /\ yielded = << >>
    /\ \E source \in {Absent} \cup {SourceFile(0, x) : x \in Texts},
          cache \in {Absent} \cup {CacheFile(t, b) : t \in 0..1,
                                                   b \in {Junk, Serialize([of |-> 1])}} :
          disk = [clock |-> 1, source |-> source, cache |-> cache]
    /\ result = [op |-> "init", ok |-> TRUE]

NextLoad == LoadBegin \/ LoadWrite \/ ReadCache \/ EditSource \/ Tick

\* Loads, source edits and readers of the cache file.
SpecLoad == InitLoad /\ [][NextLoad]_vars


(***************************************************************************)
(* Properties of the meta and function tables.                             *)
(***************************************************************************)
FunctionConflict(r) == ~r.ok /\ r.err.kind = "FunctionConflict"

\* C5: after a call that fails with FunctionConflict for a hash, the functions
\* table still maps that hash to the UnitFn registered first.
C5_FirstRegistrationIntact ==
    [][FunctionConflict(result')
         => functions'[result'.at[1]] = functions[result'.at[1]]]_vars

\* The tables an insert_meta of the given kind writes besides the meta table.
Registers(kind) ==
    CASE kind \in {"UnitStruct", "TupleStruct"} -> {"rtti", "functions", "types", "debug"}
      [] kind = "Struct" -> {"rtti", "types"}
      [] kind \in {"UnitVariant", "TupleVariant"} ->
           {"variant_rtti", "functions", "types", "debug"}
      [] kind = "StructVariant" -> {"variant_rtti", "types"}
      [] kind = "Enum" -> {"types"}
      [] OTHER -> {}

TableNamed(name) ==
    CASE name = "rtti" -> rtti
      [] name = "variant_rtti" -> variant_rtti
      [] name = "functions" -> functions
      [] name = "types" -> types
      [] name = "debug" -> DebugFunctions(debug)

TableNamedNext(name) ==
    CASE name = "rtti" -> rtti'
      [] name = "variant_rtti" -> variant_rtti'
      [] name = "functions" -> functions'
      [] name = "types" -> types'
      [] name = "debug" -> DebugFunctions(debug')

ConflictOf(name) ==
    CASE name = "rtti" -> "TypeRttiConflict"
      [] name = "variant_rtti" -> "VariantRttiConflict"
      [] name = "functions" -> "FunctionConflict"
      [] name = "types" -> "TypeConflict"
      [] name = "meta" -> "MetaConflict"

\* The tables in which insert_meta(m) would overwrite an entry.
HitTables(m) ==
    {name \in Registers(m.kind) \ {"debug"} : Has(TableNamed(name), TypeHash(m.item))}
    \cup (IF Has(meta, m.item) THEN {"meta"} ELSE {})

C6_Step ==
    (result'.op = "insert_meta" /\ HitTables(result'.arg) # {})
      => /\ ~result'.ok
         /\ result'.err.kind \in {ConflictOf(name) : name \in HitTables(result'.arg)}
         /\ result'.err.kind = "MetaConflict"
              => /\ result'.err.current = result'.arg
                 /\ result'.err.existing = meta[result'.arg.item]

\* C6: an insert_meta that would overwrite an entry of rtti, variant_rtti,
\* functions, types or the meta table never returns Ok: it returns the
\* conflict error of a table it hit, and MetaConflict carries the new and the
\* previously stored meta.
C6_OverwriteIsConflict == [][C6_Step]_vars

\* C6 witness: a second meta of another kind for the same item was just
\* refused with MetaConflict.
C6_Witness ==
    /\ result.op = "insert_meta"
    /\ ~result.ok
    /\ result.err.kind = "MetaConflict"
    /\ result.err.existing.kind # result.err.current.kind

\* C7: the `existing` field of a FunctionConflict is the debug signature of
\* the function that was already registered under the hash.
C7_ConflictNamesExisting ==
    [][(FunctionConflict(result') /\ Has(DebugFunctions(debug), result'.at[1]))
         => result'.err.existing = DebugFunctions(debug)[result'.at[1]]]_vars

\* No table holds an entry for the item or the hash of m.
Fresh(m) ==
    /\ ~Has(meta, m.item)
    /\ \A name \in {"rtti", "variant_rtti", "functions", "types", "debug"} :
          ~Has(TableNamed(name), TypeHash(m.item))

\* The table gained exactly the key h.
Gained(name, h) ==
    /\ DOMAIN TableNamedNext(name) = (DOMAIN TableNamed(name)) \cup {h}
    /\ \A k \in DOMAIN TableNamed(name) : TableNamedNext(name)[k] = TableNamed(name)[k]

C8_Step ==
    (result'.op = "insert_meta" /\ result'.ok /\ Fresh(result'.arg))
      => LET m == result'.arg
             h == TypeHash(m.item)
         IN /\ \A name \in {"rtti", "variant_rtti", "functions", "types", "debug"} :
                  IF name \in Registers(m.kind) THEN Gained(name, h)
                  ELSE TableNamedNext(name) = TableNamed(name)
            /\ DOMAIN meta' = (DOMAIN meta) \cup {m.item}
            /\ meta'[m.item] = m
            /\ \A i \in DOMAIN meta : meta'[i] = meta[i]
            /\ m.kind \in VariantKinds => types'[h].type_of = TypeHash(m.enum_item)
            /\ UNCHANGED <<instructions, functions_rev, label_count, required_functions>>

\* C8: a successful insert_meta on a builder with no entry for the item or
\* hash changes exactly the tables its kind registers in, the meta table
\* gains item -> meta, and a variant's types entry has the enum's type hash
\* as type_of.
C8_MetaRegistersItsTables == [][C8_Step]_vars

\* C8 witness: a tuple variant of another enum item was just registered as
\* the second meta of the builder.
C8_Witness ==
    /\ result.op = "insert_meta"
    /\ result.ok
    /\ result.arg.kind = "TupleVariant"
    /\ result.arg.enum_item # result.arg.item
    /\ Cardinality(DOMAIN meta) = 2
    /\ Has(variant_rtti, TypeHash(result.arg.item))

\* C9: every function stored as UnitFn::Offset under its type hash has
\* functions_rev[offset] equal to that hash.
C9_FunctionsRevMatches ==
    \A i \in Items :
       (Has(functions, TypeHash(i)) /\ functions[TypeHash(i)].kind = "Offset")
         => /\ Has(functions_rev, functions[TypeHash(i)].offset)
            /\ functions_rev[functions[TypeHash(i)].offset] = TypeHash(i)

\* The instruction emitted for an assembly instruction keeps its kind and
\* operands (the jump offset apart).
Emitted(out, inst) ==
    CASE inst.kind = "Raw" -> out = inst.raw
      [] inst.kind = "JumpIfBranch" -> out.op = inst.kind /\ out.branch = inst.branch
      [] inst.kind = "PopAndJumpIfNot" -> out.op = inst.kind /\ out.count = inst.count
      [] OTHER -> out.op = inst.kind

C10_Step ==
    (result'.op = "new_function" /\ result'.ok)
      => LET a == result'.arg
             h == TypeHash(a.path)
             offset == Len(instructions)
             n == Len(a.assembly.instructions)
         IN /\ Has(functions', h)
            /\ functions'[h] = [kind |-> "Offset", offset |-> offset,
                                call |-> a.call, args |-> a.args]
            /\ Has(DebugFunctions(debug'), h)
            /\ DebugFunctions(debug')[h] =
                  [path |-> a.path,
                   args |-> [kind |-> "NamedArgs", names |-> a.debug_args]]
            /\ Len(instructions') = offset + n
            /\ \A i \in 1..offset : instructions'[i] = instructions[i]
            /\ \A i \in 1..n :
                  Emitted(instructions'[offset + i], a.assembly.instructions[i].inst)

\* C10: a successful new_function stores Offset{offset, call, args} under
\* type_hash(path) with offset the instruction count before the call, records
\* the debug signature under that hash, and appends the assembly's
\* instructions, in order, to the instruction vector.
C10_NewFunctionAppends == [][C10_Step]_vars

\* C10 witness: a second function of two instructions, a jump then a raw
\* instruction, was just emitted at offset 1.
C10_Witness ==
    /\ result.op = "new_function"
    /\ result.ok
    /\ Len(instructions) = 3
    /\ Len(result.arg.assembly.instructions) = 2
    /\ result.arg.assembly.instructions[1].inst.kind = "Jump"
    /\ result.arg.assembly.instructions[2].inst.kind = "Raw"
    /\ functions[TypeHash(result.arg.path)].offset = 1

C11_Step ==
    (result'.op = "new_instance_function")
      => LET a == result'.arg
             instance_fn == InstanceFunctionHash(a.type_of, a.name)
             hash == TypeHash(a.path)
             info == [kind |-> "Offset", offset |-> Len(instructions),
                      call |-> a.call, args |-> a.args]
         IN /\ result'.ok
                 => /\ Has(functions', instance_fn) /\ functions'[instance_fn] = info
                    /\ Has(functions', hash) /\ functions'[hash] = info
            /\ (~Has(functions, instance_fn) /\ Has(functions, hash))
                 => FunctionConflict(result')

\* C11: a successful new_instance_function stores the same Offset record under
\* instance_function(type_of, name) and under type_hash(path); when the
\* instance hash is free and the type hash is taken the call fails with
\* FunctionConflict.
C11_InstanceFunctionTwoKeys == [][C11_Step]_vars

\* C11 witness: an instance function was just registered as the second
\* function of the unit, at offset 1.
C11_Witness ==
    /\ result.op = "new_instance_function"
    /\ result.ok
    /\ Cardinality(DOMAIN functions) = 3
    /\ functions[TypeHash(result.arg.path)].offset = 1
    /\ functions[InstanceFunctionHash(result.arg.type_of, result.arg.name)].offset = 1

(***************************************************************************)
(* Properties of jump translation.                                         *)
(***************************************************************************)
IsJump(inst) == inst.kind \in JumpKinds

C12_Step ==
    (result'.op = "new_function" /\ ~FunctionConflict(result'))
      => LET a == result'.arg.assembly
             start == Len(instructions)
             pushed == Len(instructions') - start
         IN /\ \A i \in 1..start : instructions'[i] = instructions[i]
            /\ pushed <= Len(a.instructions)
            /\ \A i \in 1..pushed :
                  IsJump(a.instructions[i].inst)
                    => LET s == start + (i - 1)
                           o == instructions'[s + 1].offset
                           l == a.labels[a.instructions[i].inst.label]
                       IN /\ s + 1 + o = start + l
                          /\ l = i => o = 0

\* C12: every jump emitted at absolute index s with offset o has s + 1 + o
\* equal to the start offset of its function plus the position of its label in
\* the assembly; a label marked right after the jump gives offset 0; and
\* merging a function leaves the instructions emitted before it unchanged.
C12_JumpOffsetRoundTrip == [][C12_Step]_vars

\* C12 witness: the second function, merged at offset 1 or later, holds a jump
\* back to its own first instruction.
C12_Witness ==
    /\ result.op = "new_function"
    /\ result.ok
    /\ functions[TypeHash(result.arg.path)].offset >= 1
    /\ \E i \in 1..Len(result.arg.assembly.instructions) :
          /\ IsJump(result.arg.assembly.instructions[i].inst)
          /\ result.arg.assembly.labels[result.arg.assembly.instructions[i].inst.label] = 0
          /\ instructions[functions[TypeHash(result.arg.path)].offset + i].offset = -i

\* Position of the last instruction of the assembly just merged (0-based).
LastPos(r) == Len(r.arg.assembly.instructions) - 1

\* The label of the last instruction of the assembly just merged is marked.
LastMarked(r) ==
    Has(r.arg.assembly.labels, r.arg.assembly.instructions[LastPos(r) + 1].inst.label)

LastLabelPos(r) ==
    r.arg.assembly.labels[r.arg.assembly.instructions[LastPos(r) + 1].inst.label]

\* C13: for a jump position and a label position that both fit an isize the
\* translation succeeds and the offset is exactly label position minus (jump
\* position + 1), the jump position isize::MAX included.
C13_TranslateExact ==
    (result.op = "new_function" /\ IsJump(result.arg.assembly.instructions[LastPos(result) + 1].inst)
       /\ LastMarked(result)
       /\ LastPos(result) <= IsizeMax /\ LastLabelPos(result) <= IsizeMax)
      => /\ result.ok
         /\ Len(instructions) = LastPos(result) + 1
         /\ instructions[LastPos(result) + 1].offset
               = LastLabelPos(result) - (LastPos(result) + 1)

\* C13 witness: a jump at position isize::MAX to the label at position 0 was
\* translated to the offset -(isize::MAX + 1).
C13_Witness ==
    /\ result.op = "new_function"
    /\ result.ok
    /\ LastPos(result) = IsizeMax
    /\ LastLabelPos(result) = 0
    /\ instructions[IsizeMax + 1].offset = 0 - (IsizeMax + 1)

\* C14: the translation of a jump fails exactly when its label is not marked
\* (MissingLabel, whatever the positions), else when its position does not fit
\* an isize (BaseOverflow), else when the label's position does not
\* (OffsetOverflow); a failed jump pushes no instruction.
C14_TranslateFailures ==
    (result.op = "new_function" /\ IsJump(result.arg.assembly.instructions[LastPos(result) + 1].inst))
      => LET base == LastPos(result)
             marked == LastMarked(result)
             fails == \/ ~marked
                      \/ base > IsizeMax
                      \/ LastLabelPos(result) > IsizeMax
         IN /\ result.ok <=> ~fails
            /\ result.ok => Len(instructions) = base + 1
            /\ ~result.ok
                 => /\ Len(instructions) = base
                    /\ result.err.kind \in {"MissingLabel", "BaseOverflow", "OffsetOverflow"}
                    /\ result.err.kind = "MissingLabel" <=> ~marked
                    /\ result.err.kind = "BaseOverflow" => base > IsizeMax
                    /\ result.err.kind = "OffsetOverflow" => LastLabelPos(result) > IsizeMax

\* C14 witness: a jump at a position past isize::MAX to a label never marked
\* failed with MissingLabel and pushed nothing.
C14_Witness ==
    /\ result.op = "new_function"
    /\ ~result.ok
    /\ LastPos(result) > IsizeMax
    /\ ~LastMarked(result)
    /\ result.err.kind = "MissingLabel"
    /\ Len(instructions) = LastPos(result)

(***************************************************************************)
(* Properties of labels, linking, finalization and imports.                *)
(***************************************************************************)
\* C15: the builder's label count never decreases, so it stays at least the
\* label count of every assembly merged so far and a later assembly never
\* allocates a label number a merged function used.
C15_LabelCountMonotone == [][label_count' >= label_count]_vars
\* The errors the link just made appended.
Appended(r) == SubSeq(r.errors, Len(r.arg.errors) + 1, Len(r.errors))

\* The hashes link has to report: required, not in the unit, not in the context.
Unresolved(context) ==
    {h \in DOMAIN required_functions : ~Has(functions, h) /\ h \notin context}

C16_Step ==
    /\ result'.op = "new_function" /\ ~FunctionConflict(result')
         => DOMAIN required_functions'
              = (DOMAIN required_functions)
                \cup (DOMAIN result'.arg.assembly.required_functions)
    /\ result'.op = "link"
         => LET new == Appended(result')
            IN /\ SubSeq(result'.errors, 1, Len(result'.arg.errors)) = result'.arg.errors
               /\ \A i \in 1..Len(new) : new[i].kind = "MissingFunction"
               /\ {new[i].hash : i \in 1..Len(new)} = Unresolved(result'.arg.context)
               /\ Len(new) = Cardinality(Unresolved(result'.arg.context))
               /\ Len(new) = 0
                    => \A h \in DOMAIN uses :
                          Has(functions, h) \/ h \in result'.arg.context
               /\ UNCHANGED <<unit_vars, ext_vars>>

\* C16: link appends exactly one MissingFunction for each required hash that
\* is neither a unit function nor resolved by the context, and nothing else;
\* when it appends none, every hash a merged assembly required is in the unit
\* or the context.
C16_LinkComplete == [][C16_Step]_vars

\* C16 witness: with one required hash resolved by the unit, one by the
\* context and one by neither, link appended one error after an earlier one.
C16_Witness ==
    /\ result.op = "link"
    /\ result.arg.context = {ExternHash}
    /\ Len(result.arg.errors) = 1
    /\ DOMAIN required_functions = RequiredHashes
    /\ Cardinality(DOMAIN functions) = 1
    /\ Len(result.errors) = 2

\* C17: the MissingFunction error of a hash carries every use site that the
\* merged assemblies recorded for that hash.
C17_MissingFunctionAllSpans ==
    result.op = "link"
      => \A i \in 1..Len(Appended(result)) :
            uses[Appended(result)[i].hash] \subseteq Range(Appended(result)[i].spans)

C18_Step ==
    result'.op = "build"
      => /\ result'.unit.some <=> handles = 1
         /\ handles > 1
              => /\ ~result'.unit.some
                 /\ handles' = handles - 1
                 /\ UNCHANGED <<pool_vars, unit_vars, imports>>
         /\ result'.unit.some
              => /\ handles' = 0
                 /\ result'.unit.val.instructions = instructions
                 /\ result'.unit.val.functions = functions

\* C18: build returns a Unit exactly when the handle it consumes is the only
\* one left; with another handle alive it returns None and the builder's
\* state, as the other handles see it, is unchanged.
C18_BuildNeedsSoleHandle == [][C18_Step]_vars

\* C18 witness: build was refused on a builder with a registered function
\* while a second handle was alive.
C18_Witness ==
    /\ result.op = "build"
    /\ ~result.unit.some
    /\ result.handles = 2
    /\ handles = 1
    /\ functions # EmptyMap

\* C19: the debug info of the Unit that build returns holds every
\* (offset -> hash) entry of the builder's functions_rev.
C19_BuildMovesFunctionsRev ==
    (result.op = "build" /\ result.unit.some)
      => \A offset \in DOMAIN functions_rev :
            /\ result.unit.val.debug.some
            /\ Has(result.unit.val.debug.val.functions_rev, offset)
            /\ result.unit.val.debug.val.functions_rev[offset] = functions_rev[offset]

C20_Step ==
    result'.op = "new_import"
      => LET a == result'.arg
             key == [item |-> a.at, component |-> a.path[Len(a.path)]]
         IN /\ result'.ok
            /\ a.path = << >> => imports' = imports
            /\ a.path # << >>
                 => /\ DOMAIN imports' = (DOMAIN imports) \cup {key}
                    /\ imports'[key] = [item |-> a.path,
                                        span |-> [some |-> TRUE,
                                                  val |-> <<a.span, a.source_id>>]]
                    /\ \A k \in (DOMAIN imports) \ {key} : imports'[k] = imports[k]
            /\ UNCHANGED <<pool_vars, unit_vars, handles>>

\* C20: new_import with a non-empty path sets the entry at (at, last
\* component) to (path, Some((span, source_id))), replacing what was there,
\* and changes no other import and no other table; with an empty path it
\* changes nothing; it always returns Ok.
C20_NewImportSetsOneKey == [][C20_Step]_vars

\* C20 witness: the prelude entry of `dbg` was just replaced by an import of
\* a::dbg at the root.
C20_Witness ==
    /\ result.op = "new_import"
    /\ result.arg.at = << >>
    /\ result.arg.path = <<"a", "dbg">>
    /\ Cardinality(DOMAIN imports) = Len(PreludeItems)
    /\ imports[[item |-> << >>, component |-> "dbg"]].item = <<"a", "dbg">>
    /\ imports[[item |-> << >>, component |-> "dbg"]].span.some

\* The prefixes of base that hold an import of the name.
Importing(base, name) ==
    {n \in 0..Len(base) :
        [item |-> SubSeq(base, 1, n), component |-> name] \in DOMAIN imports}

Longest(ns) == CHOOSE n \in ns : \A k \in ns : k <= n

\* The identifiers of the segments, in order.
Names(rest) == [i \in 1..Len(rest) |-> rest[i].name]

C21_Step ==
    (result'.op = "convert_path"
       /\ result'.arg.path.first.ident
       /\ \A i \in 1..Len(result'.arg.path.rest) : result'.arg.path.rest[i].ident)
      => LET base == result'.arg.base
             name == result'.arg.path.first.name
             ns == Importing(base, name)
             R == IF ns = {} THEN <<name>>
                  ELSE imports[[item |-> SubSeq(base, 1, Longest(ns)),
                                component |-> name]].item
         IN /\ result'.ok
            /\ result'.item = R \o Names(result'.arg.path.rest)
            /\ UNCHANGED <<pool_vars, unit_vars, ext_vars>>

\* C21: convert_path returns the item imported under the name at the longest
\* prefix of base that imports it (base first, the empty item last), or the
\* name alone when none does, followed by the remaining segments in order;
\* it ends for every base and changes nothing in the builder.
C21_ConvertPathLongestPrefix == [][C21_Step]_vars

\* C21 witness: with x imported at the root and in a, a path x::y written in
\* a::b resolved through the import made in a.
C21_Witness ==
    /\ result.op = "convert_path"
    /\ result.ok
    /\ result.arg.base = <<"a", "b">>
    /\ Importing(<<"a", "b">>, "x") = {0, 1}
    /\ imports[[item |-> << >>, component |-> "x"]].item = <<"m", "x">>
    /\ imports[[item |-> <<"a">>, component |-> "x"]].item = <<"n", "x">>
    /\ result.item = <<"n", "x", "y">>

(***************************************************************************)
(* Properties of the loader.                                               *)
(***************************************************************************)
\* C22: should_cache_be_used is Ok(true) exactly when both files exist and
\* the source's mtime is strictly older than the cache's; it is Ok(false) for
\* an existing source without a cache file; a source whose metadata cannot be
\* read (a missing source included) and any other error on the cache are
\* returned as errors.
C22_CacheFreshness ==
    result.op = "should_cache_be_used"
      => LET out == result.out
             source == disk.source
             cache == disk.cache
         IN /\ (out.ok /\ out.fresh)
                 <=> (source.stat = "ok" /\ cache.stat = "ok"
                      /\ source.mtime < cache.mtime)
            /\ (source.stat = "ok" /\ cache.stat = "NotFound")
                 => (out.ok /\ ~out.fresh)
            /\ ~out.ok
                 <=> (source.stat # "ok" \/ cache.stat \notin {"ok", "NotFound"})
            /\ source.stat = "NotFound" => (~out.ok /\ out.err.kind = "NotFound")

\* C22 witness: a source and a cache with the same mtime were found not fresh.
C22_Witness ==
    /\ result.op = "should_cache_be_used"
    /\ disk.source.stat = "ok"
    /\ disk.cache.stat = "ok"
    /\ disk.source.mtime = disk.cache.mtime
    /\ result.out.ok
    /\ ~result.out.fresh

C23_Step ==
    (result'.op = "load"
       /\ result'.arg.bytecode
       /\ result'.source.stat = "ok"
       /\ should_cache_be_used(result'.source, result'.before)
            = [ok |-> TRUE, fresh |-> TRUE]
       /\ ~Deserialize(result'.before.bytes).some
       /\ Compile(result'.source.text).some)
      => /\ result'.ok
         /\ result'.compiled
         /\ result'.unit = Compile(result'.source.text)
         /\ disk'.cache.stat = "ok"
         /\ disk'.cache.bytes = Serialize(result'.unit.val)

\* C23: a load with caching enabled that finds a fresh cache it cannot
\* deserialize returns no error for that: it compiles the source, and when
\* the compile succeeds it rewrites the cache file and returns the compiled
\* unit.
C23_CorruptCacheRecompiles == [][C23_Step]_vars

\* C23 witness: a load that found a corrupt cache newer than the source
\* returned the compiled unit and left its serialization in the cache.
C23_Witness ==
    /\ result.op = "load"
    /\ result.ok
    /\ result.compiled
    /\ result.before.stat = "ok"
    /\ result.before.bytes = Junk
    /\ result.source.mtime < result.before.mtime
    /\ disk.cache.bytes = Serialize(result.unit.val)

\* C24: a reader of the cache path that runs while a load writes the cache
\* file sees the whole file as it was before that load or the whole new
\* serialization, never an empty or partly written file.
C24_CacheWriteAtomic ==
    (result.op = "read_cache" /\ result.writing.some)
      => \/ result.file = result.writing.val.before
         \/ /\ result.file.stat = "ok"
            /\ result.file.bytes = Serialize(result.writing.val.unit)

\* The step is the return of a load.
LoadReturned == result'.op = "load" /\ disk'.clock = disk.clock

\* The step is the start of a load.
LoadStarted ==
    /\ loading = None
    /\ result'.op \in {"load", "load_writing"}
    /\ disk'.clock = disk.clock

C25_Step ==
    /\ (LoadReturned /\ result'.arg.bytecode /\ result'.source.stat = "ok"
          /\ result'.before.stat = "ok"
          /\ result'.source.mtime >= result'.before.mtime)
         => /\ result'.compiled
            /\ disk'.cache.stat = "ok"
            /\ disk'.cache.bytes = Serialize([of |-> result'.source.text])
            /\ disk'.cache.mtime = disk'.clock
    /\ (result.op = "load" /\ result.ok /\ result.compiled /\ result.arg.bytecode
          /\ LoadStarted /\ result'.arg.bytecode
          /\ disk.source = result.source
          /\ disk.source.mtime < disk.cache.mtime)
         => /\ result'.op = "load"
            /\ result'.ok
            /\ ~result'.compiled
            /\ result'.unit = result.unit
            /\ disk' = disk

\* C25: a load with bytecode enabled that finds the source not older than the
\* cache compiles from source and rewrites the cache; the next load, with the
\* source unchanged and the cache strictly newer, returns the cached unit
\* without compiling.
C25_RecompileThenReuse == [][C25_Step]_vars

C25_Amended_Step ==
    /\ (LoadReturned /\ result'.arg.bytecode /\ result'.source.stat = "ok"
          /\ result'.before.stat = "ok"
          /\ result'.source.mtime >= result'.before.mtime)
         => /\ result'.compiled
            /\ result'.ok
                 => /\ disk'.cache.stat = "ok"
                    /\ disk'.cache.bytes = Serialize([of |-> result'.source.text])
                    /\ disk'.cache.mtime = disk'.clock
            /\ ~result'.ok => disk' = disk
    /\ (result.op = "load" /\ result.ok /\ result.compiled /\ result.arg.bytecode
          /\ LoadStarted /\ result'.arg.bytecode
          /\ disk.source = result.source
          /\ disk.source.mtime < disk.cache.mtime)
         => /\ result'.op = "load"
            /\ result'.ok
            /\ ~result'.compiled
            /\ result'.unit = result.unit
            /\ disk' = disk

\* C25 amended: a load with bytecode enabled that finds the source not older
\* than the cache compiles from source and, when the compile succeeds,
\* rewrites the cache (a failed compile leaves the cache as it was); the next
\* load, with the source unchanged and the cache strictly newer, returns the
\* cached unit without compiling.
C25_Amended_RecompileThenReuse == [][C25_Amended_Step]_vars

\* C25 witness: after a load that compiled and wrote the cache, a second load
\* of the unchanged source returned the same unit from the cache.
C25_Witness ==
    /\ result.op = "load"
    /\ result.ok
    /\ ~result.compiled
    /\ result.before.stat = "ok"
    /\ result.before.mtime = 2
    /\ result.source.mtime = 1
    /\ result.unit = Compile(result.source.text)

C26_Step ==
    (result'.op = "load" /\ result'.compiled /\ ~Compile(result'.source.text).some)
      => /\ ~result'.ok
         /\ ~result'.unit.some
         /\ disk'.cache = disk.cache
         /\ disk'.cache = result'.before

\* C26: when the compile fails, load returns an error and no unit, and the
\* cache file is neither created nor modified.
C26_FailedCompileKeepsCache == [][C26_Step]_vars

\* C26 witness: with bytecode enabled and a stale cache holding an older
\* unit, a load of a source that does not compile failed and the cache is
\* still that unit.
C26_Witness ==
    /\ result.op = "load"
    /\ ~result.ok
    /\ result.compiled
    /\ result.arg.bytecode
    /\ disk.cache.stat = "ok"
    /\ Deserialize(disk.cache.bytes).some
    /\ disk.cache = result.before

(***************************************************************************)
(* compile/ir/ir_compiler.rs: lowering of the AST to IR.  An expression is *)
(* a record tagged by `kind` (the variant of ast::Expr), a statement a     *)
(* record tagged by `stmt`, an IR node a record tagged by `node`.  Spans   *)
(* are left out, and every identifier, string and number resolves.  The    *)
(* arms of ast::Expr for Object and Break lower through code outside this  *)
(* file and are not among the inputs.                                      *)
(***************************************************************************)

\* The longest block that is lowered.
MaxStmts == 3

IrOk(ir) == [ok |-> TRUE, ir |-> ir]

\* IrError::msg(span, msg).
IrError(msg) == [ok |-> FALSE, msg |-> msg]

ExprPath(segments) == [kind |-> "Path", segments |-> segments]
ExprLit(value) == [kind |-> "Lit", value |-> value]
ExprGroup(expr) == [kind |-> "Group", expr |-> expr]
ExprEmpty(expr) == [kind |-> "Empty", expr |-> expr]
ExprVec(items) == [kind |-> "Vec", items |-> items]
ExprTuple(items) == [kind |-> "Tuple", items |-> items]
ExprBinary(op, lhs, rhs) == [kind |-> "Binary", op |-> op, lhs |-> lhs, rhs |-> rhs]
ExprAssign(lhs, rhs) == [kind |-> "Assign", lhs |-> lhs, rhs |-> rhs]
ExprCall(expr, call_args) == [kind |-> "Call", expr |-> expr, call_args |-> call_args]
ExprFieldAccess(expr, expr_field) ==
    [kind |-> "FieldAccess", expr |-> expr, expr_field |-> expr_field]
ExprBlock(statements) == [kind |-> "Block", statements |-> statements]
ExprLoop(statements) == [kind |-> "Loop", statements |-> statements]
ExprWhile(condition, statements) ==
    [kind |-> "While", condition |-> condition, statements |-> statements]
ExprIf(condition, statements, expr_else) ==
    [kind |-> "If", condition |-> condition, statements |-> statements,
     expr_else |-> expr_else]
ExprLet == [kind |-> "Let"]
ExprMacroCall(internal_macro) == [kind |-> "MacroCall", internal_macro |-> internal_macro]

\* ast::ExprField.
FieldPath(id) == [field |-> "Path", id |-> id]
FieldLitNumber(float, n) == [field |-> "LitNumber", float |-> float, n |-> n]

\* BuiltInMacro.
BuiltInTemplate(exprs) == [macro |-> "Template", exprs |-> exprs]
BuiltInFile(file_name) == [macro |-> "File", file_name |-> file_name]
BuiltInLine(line) == [macro |-> "Line", line |-> line]
BuiltInFormat == [macro |-> "Format"]

\* ast::Stmt and ast::Pat.
StmtLocal(pat, expr) == [stmt |-> "Local", pat |-> pat, expr |-> expr]
StmtExpr(expr, semi) == [stmt |-> "Expr", expr |-> expr, semi |-> semi]
StmtItem == [stmt |-> "Item"]
PatIgnore == [pat |-> "PatIgnore"]
PatPath(segments) == [pat |-> "PatPath", segments |-> segments]
PatTuple == [pat |-> "PatTuple"]

\* Path::try_as_ident: a path of one plain segment.
try_as_ident(path) ==
    IF Len(path.segments) = 1 THEN Some(path.segments[1]) ELSE None

\* Number::as_tuple_index: a non-negative integer.
as_tuple_index(number) ==
    IF ~number.float /\ number.n >= 0 THEN Some(number.n) ELSE None

\* BinOp::is_assign.
is_assign(op) ==
    op \in {"AddAssign", "SubAssign", "MulAssign", "DivAssign", "RemAssign",
            "BitAndAssign", "BitXorAssign", "BitOrAssign", "ShlAssign", "ShrAssign"}

\* An operator table that also takes the remainder assignment.
assign_op_with_rem(op) ==
    CASE op = "AddAssign" -> Some("Add")
      [] op = "SubAssign" -> Some("Sub")
      [] op = "MulAssign" -> Some("Mul")
      [] op = "DivAssign" -> Some("Div")
      [] op = "RemAssign" -> Some("Rem")
      [] op = "ShlAssign" -> Some("Shl")
      [] op = "ShrAssign" -> Some("Shr")
      [] OTHER -> None

\* The first match of ExprBinary::compile: the IrAssignOp of an assignment
\* operator, None for `_`.
assign_op(op) ==
    CASE op = "AddAssign" -> Some("Add")
      [] op = "SubAssign" -> Some("Sub")
      [] op = "MulAssign" -> Some("Mul")
      [] op = "DivAssign" -> Some("Div")
      [] op = "ShlAssign" -> Some("Shl")
      [] op = "ShrAssign" -> Some("Shr")
      [] OTHER -> None

\* An operator table that maps Lte to Lt and takes the logical operators.
binary_op_loose(op) ==
    CASE op \in {"Add", "Sub", "Mul", "Div", "Shl", "Shr", "Lt", "Eq", "Gt", "Gte"} -> Some(op)
      [] op = "Lte" -> Some("Lt")
      [] op \in {"And", "Or"} -> Some(op)
      [] OTHER -> None

\* The second match of ExprBinary::compile: the IrBinaryOp of an operator,
\* None for `_`.
binary_op(op) ==
    CASE op = "Add" -> Some("Add")
      [] op = "Sub" -> Some("Sub")
      [] op = "Mul" -> Some("Mul")
      [] op = "Div" -> Some("Div")
      [] op = "Shl" -> Some("Shl")
      [] op = "Shr" -> Some("Shr")
      [] op = "Lt" -> Some("Lt")
      [] op = "Lte" -> Some("Lte")
      [] op = "Eq" -> Some("Eq")
      [] op = "Gt" -> Some("Gt")
      [] op = "Gte" -> Some("Gte")
      [] OTHER -> None

IrTargetName(id) == [node |-> "Target", target |-> "Name", id |-> id]
IrTargetField(of, id) == [node |-> "Target", target |-> "Field", base |-> of, id |-> id]
IrTargetIndex(of, index) ==
    [node |-> "Target", target |-> "Index", base |-> of, index |-> index]
IrScope(insts, last) ==
    [node |-> "Scope", instructions |-> insts, last |-> last]

RECURSIVE ir_target(_)
RECURSIVE compile_expr(_)
RECURSIVE compile_exprs(_)
RECURSIVE compile_block_loop(_, _, _)

\* A target resolution that takes every expression for the name "x".
ir_target_any(expr) == IrOk(IrTargetName("x"))

\* IrCompiler::ir_target.
ir_target(expr) ==
    IF expr.kind = "Path"
    THEN IF try_as_ident(expr).some
         THEN IrOk(IrTargetName(try_as_ident(expr).val))
         ELSE IrError("not supported as a target")
    ELSE IF expr.kind = "FieldAccess"
    THEN LET target == ir_target(expr.expr)
             field == expr.expr_field
         IN IF ~target.ok THEN target
            ELSE IF field.field = "Path"
            THEN IrOk(IrTargetField(target.ir, field.id))
            ELSE IF as_tuple_index(field).some
            THEN IrOk(IrTargetIndex(target.ir, as_tuple_index(field).val))
            ELSE IrError("not supported as a target")
    ELSE IrError("not supported as a target")

\* The loops `for (expr, _) in .. { items.push(expr.compile(c)?) }`: the IR
\* of every expression, or the first error.
compile_exprs(exprs) ==
    IF exprs = << >> THEN [ok |-> TRUE, irs |-> << >>]
    ELSE LET head == compile_expr(Head(exprs))
         IN IF ~head.ok THEN head
            ELSE LET rest == compile_exprs(Tail(exprs))
                 IN IF ~rest.ok THEN rest
                    ELSE [ok |-> TRUE, irs |-> <<head.ir>> \o rest.irs]

\* impl IrCompile for ast::ExprAssign.
compile_assign(expr) ==
    LET target == ir_target(expr.lhs)
        value == compile_expr(expr.rhs)
    IN IF ~target.ok THEN target
       ELSE IF ~value.ok THEN value
       ELSE IrOk([node |-> "Set", target |-> target.ir, value |-> value.ir])

\* impl IrCompile for ast::ExprCall.
compile_call(expr) ==
    LET call_args == compile_exprs(expr.call_args)
    IN IF ~call_args.ok THEN call_args
       ELSE IF expr.expr.kind = "Path" /\ try_as_ident(expr.expr).some
       THEN IrOk([node |-> "Call", id |-> try_as_ident(expr.expr).val,
                  call_args |-> call_args.irs])
       ELSE IrError("call not supported")

\* impl IrCompile for ast::ExprBinary.
compile_binary(expr) ==
    IF is_assign(expr.op)
    THEN LET op == assign_op(expr.op)
             target == ir_target(expr.lhs)
             value == compile_expr(expr.rhs)
         IN IF ~op.some THEN IrError("op not supported yet")
            ELSE IF ~target.ok THEN target
            ELSE IF ~value.ok THEN value
            ELSE IrOk([node |-> "Assign", op |-> op.val, target |-> target.ir,
                       value |-> value.ir])
    ELSE LET lhs == compile_expr(expr.lhs)
             rhs == compile_expr(expr.rhs)
             op == binary_op(expr.op)
         IN IF ~lhs.ok THEN lhs
            ELSE IF ~rhs.ok THEN rhs
            ELSE IF ~op.some THEN IrError("op not supported yet")
            ELSE IrOk([node |-> "Binary", op |-> op.val, lhs |-> lhs.ir, rhs |-> rhs.ir])

\* impl IrCompile for ast::ExprTuple.
compile_tuple(expr) ==
    LET items == compile_exprs(expr.items)
    IN IF expr.items = << >> THEN IrOk([node |-> "Unit"])
       ELSE IF ~items.ok THEN items
       ELSE IrOk([node |-> "Tuple", items |-> items.irs])

\* impl IrCompile for ast::ExprVec.
compile_vec(expr) ==
    LET items == compile_exprs(expr.items)
    IN IF ~items.ok THEN items ELSE IrOk([node |-> "Vec", items |-> items.irs])

\* impl IrCompile for ast::Path.
compile_path(path) ==
    IF try_as_ident(path).some
    THEN IrOk([node |-> "String", id |-> try_as_ident(path).val])
    ELSE IrError("not supported yet")

\* impl IrCompile for ast::ExprLet.
compile_let(expr) == IrError("not supported yet")

\* impl IrCompile for ast::Local.
compile_local(local) ==
    LET value == compile_expr(local.expr)
    IN IF local.pat.pat = "PatIgnore" THEN value
       ELSE IF local.pat.pat = "PatPath" /\ try_as_ident(local.pat).some
       THEN IF ~value.ok THEN value
            ELSE IrOk([node |-> "Decl", id |-> try_as_ident(local.pat).val,
                       value |-> value.ir])
       ELSE IrError("not supported yet")

\* An end of block that makes the pending expression `last` whether or not it
\* is terminated.
compile_block_end_unterminated(last, insts) ==
    IF ~last.some THEN IrOk(IrScope(insts, None))
    ELSE LET ir == compile_expr(last.val.expr)
         IN IF ~ir.ok THEN ir ELSE IrOk(IrScope(insts, Some(ir.ir)))

\* An end of block that drops a terminated pending expression.
compile_block_end_drops(last, insts) ==
    IF ~last.some THEN IrOk(IrScope(insts, None))
    ELSE LET ir == compile_expr(last.val.expr)
         IN IF ~ir.ok THEN ir
            ELSE IF last.val.term THEN IrOk(IrScope(insts, None))
            ELSE IrOk(IrScope(insts, Some(ir.ir)))

\* The end of Block::compile, `let last = if let Some((expr, term)) = last`:
\* a terminated pending expression is one more instruction.
compile_block_end(last, insts) ==
    IF ~last.some THEN IrOk(IrScope(insts, None))
    ELSE LET ir == compile_expr(last.val.expr)
         IN IF ~ir.ok THEN ir
            ELSE IF last.val.term
            THEN IrOk(IrScope(Append(insts, ir.ir), None))
            ELSE IrOk(IrScope(insts, Some(ir.ir)))

\* The loop of Block::compile over the statements still to come; `last` is
\* the pending expression statement with its terminator flag.
compile_block_loop(statements, last, insts) ==
    IF statements = << >> THEN compile_block_end(last, insts)
    ELSE LET stmt == Head(statements)
             pending == IF last.some THEN compile_expr(last.val.expr) ELSE IrOk([node |-> "Unit"])
             flushed == IF last.some THEN Append(insts, pending.ir) ELSE insts
         IN IF stmt.stmt = "Item"
            THEN compile_block_loop(Tail(statements), last, insts)
            ELSE IF ~pending.ok THEN pending
            ELSE IF stmt.stmt = "Local"
            THEN LET local == compile_local(stmt)
                 IN IF ~local.ok THEN local
                    ELSE compile_block_loop(Tail(statements), None,
                                            Append(flushed, local.ir))
            ELSE compile_block_loop(Tail(statements),
                                    Some([expr |-> stmt.expr, term |-> stmt.semi]),
                                    flushed)

\* impl IrCompile for ast::Block.
compile_block(statements) == compile_block_loop(statements, None, << >>)

\* impl IrCompile for BuiltInTemplate: a string literal is a String
\* component, any other expression an Ir component.  Literals of this model
\* are numbers, so every component is lowered.
compile_template(template) ==
    LET components == compile_exprs(template.exprs)
    IN IF ~components.ok THEN components
       ELSE IrOk([node |-> "Template", components |-> components.irs])

\* The arm of ast::Expr::MacroCall.
compile_macro_call(internal_macro) ==
    CASE internal_macro.macro = "Template" -> compile_template(internal_macro)
      [] internal_macro.macro = "File" ->
            IrOk([node |-> "String", id |-> internal_macro.file_name])
      [] internal_macro.macro = "Line" ->
            IrOk([node |-> "Integer", integer |-> internal_macro.line])
      [] OTHER -> IrError("unsupported builtin macro")

\* impl IrCompile for ast::ExprWhile and ast::ExprLoop (no label).
compile_loop(condition, statements) ==
    LET cond == IF condition.some THEN compile_expr(condition.val) ELSE IrOk([node |-> "Unit"])
        body == compile_block(statements)
    IN IF ~cond.ok THEN cond
       ELSE IF ~body.ok THEN body
       ELSE IrOk([node |-> "Loop",
                  cond |-> IF condition.some THEN Some(cond.ir) ELSE None,
                  body |-> body.ir])

\* impl IrCompile for ast::ExprIf with a Condition::Expr and no else-if.
compile_if(expr) ==
    LET condition == compile_expr(expr.condition)
        ir == compile_block(expr.statements)
        default_branch == IF expr.expr_else.some THEN compile_block(expr.expr_else.val)
                          ELSE IrOk([node |-> "Unit"])
    IN IF ~condition.ok THEN condition
       ELSE IF ~ir.ok THEN ir
       ELSE IF ~default_branch.ok THEN default_branch
       ELSE IrOk([node |-> "Branches",
                  branches |-> <<[cond |-> condition.ir, body |-> ir.ir]>>,
                  default_branch |-> IF expr.expr_else.some THEN Some(default_branch.ir)
                                     ELSE None])

\* impl IrCompile for ast::Expr.
compile_expr(expr) ==
    CASE expr.kind = "Vec" -> compile_vec(expr)
      [] expr.kind = "Tuple" -> compile_tuple(expr)
      [] expr.kind = "Group" -> compile_expr(expr.expr)
      [] expr.kind = "Empty" -> compile_expr(expr.expr)
      [] expr.kind = "Binary" -> compile_binary(expr)
      [] expr.kind = "Assign" -> compile_assign(expr)
      [] expr.kind = "Call" -> compile_call(expr)
      [] expr.kind = "If" -> compile_if(expr)
      [] expr.kind = "Loop" -> compile_loop(None, expr.statements)
      [] expr.kind = "While" -> compile_loop(Some(expr.condition), expr.statements)
      [] expr.kind = "Lit" -> IrOk([node |-> "Integer", integer |-> expr.value])
      [] expr.kind = "Block" -> compile_block(expr.statements)
      [] expr.kind = "Path" -> compile_path(expr)
      [] expr.kind = "FieldAccess" -> ir_target(expr)
      [] expr.kind = "Let" -> compile_let(expr)
      [] expr.kind = "MacroCall" -> compile_macro_call(expr.internal_macro)
      [] OTHER -> IrError("not supported yet")

\* The variants of ast::Expr that ast::Expr::compile has no arm for.
OtherForms ==
    {[kind |-> k] : k \in {"Match", "For", "Return", "Async", "Await", "Closure",
                            "Unary", "Index", "Try", "Select", "Yield", "Continue"}}

\* Expressions that stand for the operands of a larger one: an identifier,
\* a literal, a field of an identifier, a path of two segments, a match.
Operands ==
    {ExprPath(<<"x">>), ExprLit(1), ExprFieldAccess(ExprPath(<<"x">>), FieldPath("b")),
     ExprPath(<<"a", "b">>), [kind |-> "Match"]}

\* ast::BinOp.
BinOps ==
    {"Add", "Sub", "Div", "Mul", "Rem", "Eq", "Neq", "Gt", "Lt", "Gte", "Lte",
     "Is", "IsNot", "And", "Or", "Shl", "Shr", "BitAnd", "BitXor", "BitOr",
     "AddAssign", "SubAssign", "MulAssign", "DivAssign", "RemAssign",
     "BitAndAssign", "BitXorAssign", "BitOrAssign", "ShlAssign", "ShrAssign"}

ExprFields ==
    {FieldPath("b"), FieldLitNumber(FALSE, 0), FieldLitNumber(FALSE, -1),
     FieldLitNumber(TRUE, 0)}

\* The expressions a field is read from.
FieldBases ==
    Operands \cup OtherForms
    \cup {ExprGroup(ExprPath(<<"x">>)), ExprCall(ExprPath(<<"x">>), << >>),
          ExprFieldAccess(ExprLit(1), FieldPath("b")),
          ExprFieldAccess(ExprPath(<<"x">>), FieldLitNumber(FALSE, 0))}

BuiltInMacros ==
    {BuiltInTemplate(<< >>), BuiltInTemplate(<<ExprLit(1), ExprPath(<<"x">>)>>),
     BuiltInTemplate(<<[kind |-> "Match"]>>), BuiltInFile("main"), BuiltInLine(1),
     BuiltInFormat}

\* The statements of the blocks that are lowered.
Stmts ==
    {StmtExpr(e, semi) : e \in {ExprLit(1), ExprPath(<<"x">>), [kind |-> "Match"]},
                         semi \in BOOLEAN}
    \cup {StmtLocal(PatIgnore, ExprLit(1)), StmtLocal(PatPath(<<"x">>), ExprLit(1)),
          StmtLocal(PatTuple, ExprLit(1))}
    \cup {StmtItem}

Blocks == UNION {[1..n -> Stmts] : n \in 0..MaxStmts}

\* One expression of every variant of ast::Expr that is modelled.
Exprs ==
    Operands \cup OtherForms
    \cup {ExprFieldAccess(e, f) : e \in FieldBases, f \in ExprFields}
    \cup {ExprMacroCall(m) : m \in BuiltInMacros}
    \cup {ExprGroup(e) : e \in Operands}
    \cup {ExprEmpty(e) : e \in Operands}
    \cup {ExprVec(<<e>>) : e \in Operands}
    \cup {ExprTuple(<< >>)} \cup {ExprTuple(<<e, ExprLit(1)>>) : e \in Operands}
    \cup {ExprAssign(l, r) : l \in Operands, r \in {ExprLit(1), [kind |-> "Match"]}}
    \cup {ExprCall(f, <<a>>) : f \in Operands, a \in {ExprLit(1), [kind |-> "Await"]}}
    \cup {ExprLoop(<<StmtExpr(e, TRUE)>>) : e \in Operands}
    \cup {ExprWhile(c, << >>) : c \in Operands}
    \cup {ExprIf(c, <<StmtExpr(ExprLit(1), FALSE)>>, e) :
             c \in Operands, e \in {None, Some(<<StmtExpr([kind |-> "For"], FALSE)>>)}}
    \cup {ExprLet}

Compiled(op, arg, out) ==
    IF out.ok THEN [op |-> op, arg |-> arg, ok |-> TRUE, ir |-> out.ir]
    ELSE [op |-> op, arg |-> arg, ok |-> FALSE, msg |-> out.msg]

\* A block is lowered.
CompileBlock ==
    /\ result.op = "init"
    /\ \E statements \in Blocks :
          result' = Compiled("compile_block", ExprBlock(statements),
                             compile_expr(ExprBlock(statements)))
    /\ UNCHANGED <<builder_vars, load_vars, vec_vars, walk_vars>>

\* A binary expression is lowered.
CompileBinary ==
    /\ result.op = "init"
    /\ \E op \in BinOps, lhs \in Operands, rhs \in Operands :
          result' = Compiled("compile_binary", ExprBinary(op, lhs, rhs),
                             compile_expr(ExprBinary(op, lhs, rhs)))
    /\ UNCHANGED <<builder_vars, load_vars, vec_vars, walk_vars>>

\* An expression of any variant is lowered.
CompileExpr ==
    /\ result.op = "init"
    /\ \E expr \in Exprs :
          result' = Compiled("compile_expr", expr, compile_expr(expr))
    /\ UNCHANGED <<builder_vars, load_vars, vec_vars, walk_vars>>

NextIr == CompileBlock \/ CompileBinary \/ CompileExpr

\* IrCompiler::compile on blocks, binary expressions and single expressions.
SpecIr == InitBuilder /\ [][NextIr]_vars


C27_Step ==
    /\ debug'.some => Len(debug'.instructions) = Len(instructions')
    /\ (result'.op = "new_function" /\ ~FunctionConflict(result'))
         => LET a == result'.arg.assembly
                start == Len(instructions)
                pushed == Len(instructions') - start
            IN /\ \A i \in 1..start : debug'.instructions[i] = debug.instructions[i]
               /\ ~result'.ok => pushed < Len(a.instructions)
               /\ \A i \in 1..pushed :
                     LET rec == debug'.instructions[start + i]
                     IN /\ rec.source_id = result'.arg.source_id
                        /\ rec.span = a.instructions[i].span
                        /\ rec.label.some <=> (i - 1) \in DOMAIN a.labels_rev
                        /\ rec.label.some => rec.label.val = a.labels_rev[i - 1]
                        /\ Emitted(instructions'[start + i], a.instructions[i].inst)

\* C27: whenever debug info exists it holds one record per emitted
\* instruction, in emission order; record i has the source id and the span of
\* instruction i and a label exactly when the instruction's position in its
\* assembly is a label target, also after a merge that stopped on a label
\* error.
C27_DebugFollowsEmission == [][C27_Step]_vars

\* C27 witness: a merge stopped with MissingLabel after it had pushed an
\* instruction, behind a function whose first instruction is a label target.
C27_Witness ==
    /\ result.op = "new_function"
    /\ ~result.ok
    /\ result.err.kind = "MissingLabel"
    /\ Len(instructions) = 2
    /\ debug.instructions[1].label.some
    /\ debug.instructions[2].source_id # debug.instructions[1].source_id
    /\ ~debug.instructions[2].label.some

\* The statements of a block that are not item declarations.
NonItems(statements) == SelectSeq(statements, LAMBDA s : s.stmt # "Item")

\* C28 as stated: the IrScope of a block has `last` = the lowered last
\* statement iff the last statement of the block is an expression without a
\* semicolon, and None otherwise.
C28_BlockLast ==
    (result.op = "compile_block" /\ result.ok) =>
        LET s == result.arg.statements
            n == Len(s)
            open == n > 0 /\ s[n].stmt = "Expr" /\ ~s[n].semi
        IN /\ result.ir.last.some <=> open
           /\ open => result.ir.last.val = compile_expr(s[n].expr).ir

\* C28: the IrScope of a block has `last` = the lowered last statement that
\* is not an item declaration iff that statement is an expression without a
\* semicolon; `last` is None when it is terminated, is a `let`, or the block
\* holds no statement other than item declarations.
C28_Amended_BlockLast ==
    (result.op = "compile_block" /\ result.ok) =>
        LET s == NonItems(result.arg.statements)
            n == Len(s)
            open == n > 0 /\ s[n].stmt = "Expr" /\ ~s[n].semi
        IN /\ result.ir.last.some <=> open
           /\ open => result.ir.last.val = compile_expr(s[n].expr).ir

\* C28 witness: a block of a `let`, an unterminated expression and an item
\* declaration was lowered, and its scope has a `last`.
C28_Witness ==
    /\ result.op = "compile_block"
    /\ result.ok
    /\ Len(result.arg.statements) = 3
    /\ result.arg.statements[1].stmt = "Local"
    /\ result.arg.statements[2] = StmtExpr(ExprPath(<<"x">>), FALSE)
    /\ result.arg.statements[3] = StmtItem
    /\ result.ir.last = Some([node |-> "String", id |-> "x"])
    /\ Len(result.ir.instructions) = 1

C29_AssignOps ==
    ("AddAssign" :> "Add") @@ ("SubAssign" :> "Sub") @@ ("MulAssign" :> "Mul")
    @@ ("DivAssign" :> "Div") @@ ("ShlAssign" :> "Shl") @@ ("ShrAssign" :> "Shr")

C29_BinaryOps ==
    ("Add" :> "Add") @@ ("Sub" :> "Sub") @@ ("Mul" :> "Mul") @@ ("Div" :> "Div")
    @@ ("Shl" :> "Shl") @@ ("Shr" :> "Shr") @@ ("Lt" :> "Lt") @@ ("Lte" :> "Lte")
    @@ ("Eq" :> "Eq") @@ ("Gt" :> "Gt") @@ ("Gte" :> "Gte")

RECURSIVE FieldRoot(_)
\* The expression a chain of field accesses starts from.
FieldRoot(expr) == IF expr.kind = "FieldAccess" THEN FieldRoot(expr.expr) ELSE expr

C30_Unsupported == {"Match", "For", "Return", "Async", "Await", "Closure"}

\* C30 as stated: match, for, return, async, await, closures and a field
\* access on an expression that is not a path fail with "not supported yet",
\* a builtin macro other than Template, File and Line fails with
\* "unsupported builtin macro", and neither yields IR.
C30_UnsupportedForms ==
    result.op = "compile_expr" =>
        LET e == result.arg
        IN /\ (\/ e.kind \in C30_Unsupported
               \/ e.kind = "FieldAccess" /\ FieldRoot(e).kind # "Path")
                 => ~result.ok /\ result.msg = "not supported yet"
           /\ (e.kind = "MacroCall"
               /\ e.internal_macro.macro \notin {"Template", "File", "Line"})
                 => ~result.ok /\ result.msg = "unsupported builtin macro"

\* C30: match, for, return, async, await and closures fail with "not
\* supported yet", a field access on an expression that is not a path fails
\* with "not supported as a target", a builtin macro other than Template,
\* File and Line fails with "unsupported builtin macro", and none of them
\* yields IR.
C30_Amended_UnsupportedForms ==
    result.op = "compile_expr" =>
        LET e == result.arg
        IN /\ e.kind \in C30_Unsupported
                 => ~result.ok /\ result.msg = "not supported yet"
           /\ (e.kind = "FieldAccess" /\ FieldRoot(e).kind # "Path")
                 => ~result.ok /\ result.msg = "not supported as a target"
           /\ (e.kind = "MacroCall"
               /\ e.internal_macro.macro \notin {"Template", "File", "Line"})
                 => ~result.ok /\ result.msg = "unsupported builtin macro"

\* C30 witness: a field of a literal was refused as a target.
C30_Witness ==
    /\ result.op = "compile_expr"
    /\ result.arg = ExprFieldAccess(ExprLit(1), FieldPath("b"))
    /\ ~result.ok
    /\ result.msg = "not supported as a target"

(***************************************************************************)
(* ast/lit_number.rs: resolution of a number literal.  The text of a       *)
(* literal is a sequence of characters; i64 is modelled as the signed      *)
(* integers of WordBits bits, a float by its value in tenths.              *)
(***************************************************************************)

\* The most digits of a literal.
MaxDigits == 4

I64Min == 0 - Pow2(WordBits - 1)
I64Max == Pow2(WordBits - 1) - 1

\* char::to_digit for the digits that occur.
DigitValue ==
    ("0" :> 0) @@ ("1" :> 1) @@ ("7" :> 7) @@ ("8" :> 8) @@ ("9" :> 9) @@ ("f" :> 15)

\* &string[n..].
SliceFrom(string, n) == SubSeq(string, n + 1, Len(string))

RECURSIVE from_str_radix_loop(_, _, _)
from_str_radix_loop(digits, radix, acc) ==
    IF digits = << >> THEN Some(acc)
    ELSE IF Head(digits) \notin DOMAIN DigitValue \/ DigitValue[Head(digits)] >= radix
    THEN None
    ELSE from_str_radix_loop(Tail(digits), radix, acc * radix + DigitValue[Head(digits)])

\* num::BigUint::from_str_radix: the magnitude, of any size; None for an
\* empty string or a character that is not a digit of the radix.
from_str_radix(digits, radix) ==
    IF digits = << >> THEN None ELSE from_str_radix_loop(digits, radix, 0)

\* ToPrimitive::to_i64.
to_i64(v) == IF I64Min <= v /\ v <= I64Max THEN Some(v) ELSE None

\* A narrowing that negates after the magnitude was narrowed.
integer_of_narrow_first(number, is_negative) ==
    LET n == to_i64(number)
    IN IF ~n.some THEN None ELSE IF is_negative THEN to_i64(0 - n.val) ELSE n

\* `if text.is_negative { BigInt::from(number).neg().to_i64() } else
\* { number.to_i64() }`.
integer_of(number, is_negative) ==
    IF is_negative THEN to_i64(0 - number) ELSE to_i64(number)

\* f64::from_str on a text `d.d`: the value in tenths; None for other texts.
f64_from_str(string) ==
    IF /\ Len(string) = 3
       /\ string[2] = "."
       /\ string[1] \in DOMAIN DigitValue /\ DigitValue[string[1]] < 10
       /\ string[3] \in DOMAIN DigitValue /\ DigitValue[string[3]] < 10
    THEN Some(10 * DigitValue[string[1]] + DigitValue[string[3]])
    ELSE None

\* `match text.base`: the length of the prefix and the radix.
base_of(base) ==
    CASE base = "Binary" -> [s |-> 2, radix |-> 2]
      [] base = "Octal" -> [s |-> 2, radix |-> 8]
      [] base = "Hex" -> [s |-> 2, radix |-> 16]
      [] OTHER -> [s |-> 0, radix |-> 10]

Resolved(num) == [ok |-> TRUE, num |-> num]
ParseError(kind) == [ok |-> FALSE, err |-> [kind |-> kind]]

\* impl Resolve for LitNumber, for NumberSource::Text: `lit.string` is the
\* slice of the source under the span of the token.
resolve(lit) ==
    LET string == IF lit.is_negative THEN SliceFrom(lit.string, 1) ELSE lit.string
        float == f64_from_str(string)
        b == base_of(lit.base)
        number == from_str_radix(SliceFrom(string, b.s), b.radix)
        n == integer_of(number.val, lit.is_negative)
    IN IF lit.is_fractional
       THEN IF ~float.some THEN ParseError("BadNumberLiteral")
            ELSE Resolved([variant |-> "Float", tenths |-> float.val])
       ELSE IF ~number.some THEN ParseError("BadNumberLiteral")
       ELSE IF ~n.some THEN ParseError("BadNumberOutOfBounds")
       ELSE Resolved([variant |-> "Integer", integer |-> n.val])

\* The digits the literals of each base are written with.
DigitsOf(base) ==
    CASE base = "Binary" -> {"0", "1"}
      [] base = "Octal" -> {"0", "7"}
      [] base = "Hex" -> {"0", "8", "f"}
      [] OTHER -> {"0", "1", "7", "8", "9"}

PrefixOf(base) ==
    CASE base = "Binary" -> <<"0", "b">>
      [] base = "Octal" -> <<"0", "o">>
      [] base = "Hex" -> <<"0", "x">>
      [] OTHER -> << >>

Sign(is_negative) == IF is_negative THEN <<"-">> ELSE << >>

\* The token of an integer literal as the lexer leaves it.
IntegerLit(is_negative, base, digits) ==
    [is_negative |-> is_negative, is_fractional |-> FALSE, base |-> base,
     string |-> Sign(is_negative) \o PrefixOf(base) \o digits]

\* The token of a fractional literal `d.d`.
FloatLit(is_negative, whole, frac) ==
    [is_negative |-> is_negative, is_fractional |-> TRUE, base |-> "Decimal",
     string |-> Sign(is_negative) \o <<whole, ".", frac>>]

LitNumbers ==
    {IntegerLit(neg, base, digits) :
        neg \in BOOLEAN,
        base \in {"Binary", "Octal"},
        digits \in UNION {[1..n -> {"0", "1"}] : n \in 1..MaxDigits}}
    \cup {IntegerLit(neg, "Octal", digits) :
        neg \in BOOLEAN, digits \in UNION {[1..n -> DigitsOf("Octal")] : n \in 1..2}}
    \cup {IntegerLit(neg, "Hex", digits) :
        neg \in BOOLEAN, digits \in UNION {[1..n -> DigitsOf("Hex")] : n \in 1..2}}
    \cup {IntegerLit(neg, "Decimal", digits) :
        neg \in BOOLEAN, digits \in UNION {[1..n -> DigitsOf("Decimal")] : n \in 1..2}}
    \cup {FloatLit(neg, whole, frac) :
        neg \in BOOLEAN, whole \in DigitsOf("Decimal"), frac \in DigitsOf("Decimal")}

\* A number literal is resolved.
Resolve ==
    /\ result.op = "init"
    /\ \E lit \in LitNumbers :
          LET out == resolve(lit)
          IN result' = IF out.ok
                       THEN [op |-> "resolve", arg |-> lit, ok |-> TRUE, num |-> out.num]
                       ELSE [op |-> "resolve", arg |-> lit, ok |-> FALSE, err |-> out.err]
    /\ UNCHANGED <<builder_vars, load_vars, vec_vars, walk_vars>>

NextNumber == Resolve

\* LitNumber::resolve on integer and fractional literals of every base.
SpecNumber == InitBuilder /\ [][NextNumber]_vars

\* The magnitude a literal's digits denote, by positional value.
RECURSIVE Magnitude(_, _)
Magnitude(digits, radix) ==
    IF digits = << >> THEN 0
    ELSE Magnitude(SubSeq(digits, 1, Len(digits) - 1), radix) * radix
         + DigitValue[digits[Len(digits)]]

\* The signed value of an integer literal: the sign applied to the magnitude
\* of the digits behind the sign and the prefix.
SignedValue(lit) ==
    LET skip == (IF lit.is_negative THEN 1 ELSE 0) + Len(PrefixOf(lit.base))
        magnitude == Magnitude(SliceFrom(lit.string, skip), base_of(lit.base).radix)
    IN IF lit.is_negative THEN 0 - magnitude ELSE magnitude

\* C31: an integer literal resolves to Integer(v) iff its signed value v,
\* taken in arbitrary precision, lies in [i64::MIN, i64::MAX]; the negative
\* literal of magnitude 2^63 resolves to i64::MIN and every literal out of
\* range, positive or negative, fails with BadNumberOutOfBounds.
C31_IntegerNarrowedLast ==
    (result.op = "resolve" /\ ~result.arg.is_fractional) =>
        LET v == SignedValue(result.arg)
        IN IF I64Min <= v /\ v <= I64Max
           THEN result.ok /\ result.num = [variant |-> "Integer", integer |-> v]
           ELSE ~result.ok /\ result.err.kind = "BadNumberOutOfBounds"

\* C31 witness: the negative literal of magnitude 2^63 resolved to i64::MIN.
C31_Witness ==
    /\ result.op = "resolve"
    /\ result.arg.is_negative
    /\ ~result.arg.is_fractional
    /\ result.arg.base = "Binary"
    /\ result.ok
    /\ result.num.integer = I64Min

\* C32: a literal flagged negative resolves to the negation of the magnitude
\* parsed from the text behind the sign character, for an integer literal
\* and for a fractional literal alike.
C32_NegativeResolved ==
    (result.op = "resolve" /\ result.arg.is_negative /\ result.ok) =>
        IF result.arg.is_fractional
        THEN result.num = [variant |-> "Float",
                           tenths |-> 0 - f64_from_str(SliceFrom(result.arg.string, 1)).val]
        ELSE result.num = [variant |-> "Integer", integer |-> SignedValue(result.arg)]

(***************************************************************************)
(* runtime/vec.rs: the dynamic Vec.  A Value is a record tagged by its     *)
(* variant; T of push_value / get_value is one of the native types i64 and *)
(* bool, Value itself, or a type whose conversion to a Value fails.        *)
(***************************************************************************)

\* The most elements the Vec is grown to.
MaxVec == 3

ValueInteger(n) == [value |-> "Integer", integer |-> n]
ValueBool(b) == [value |-> "Bool", bool |-> b]

\* What push is called with.
Values == {ValueInteger(42), ValueInteger(1), ValueBool(TRUE)}

\* What push_value is called with: a native value and its type.
Natives ==
    {[type |-> "i64", integer |-> 42], [type |-> "i64", integer |-> 1],
     [type |-> "bool", bool |-> TRUE], [type |-> "Failing"]}

\* ToValue::to_value.
to_value(native) ==
    CASE native.type = "i64" -> Some(ValueInteger(native.integer))
      [] native.type = "bool" -> Some(ValueBool(native.bool))
      [] OTHER -> None

\* FromValue::from_value for T: the native value, None for a Value of
\* another variant.
from_value(T, value) ==
    CASE T = "i64" /\ value.value = "Integer" -> Some([type |-> "i64", integer |-> value.integer])
      [] T = "bool" /\ value.value = "Bool" -> Some([type |-> "bool", bool |-> value.bool])
      [] OTHER -> None

\* A push that puts the element in front.
push_front(vec, value) == <<value>> \o vec

\* Vec::push on `inner`.
push(vec, value) == Append(vec, value)

\* A lookup that counts indices from one.
get_from_one(vec, index) ==
    IF 1 <= index /\ index <= Len(vec) THEN Some(vec[index]) ELSE None

\* Vec::get with a usize: slice::get, indices from 0.
get(vec, index) ==
    IF index < Len(vec) THEN Some(vec[index + 1]) ELSE None

\* Vec::len and Vec::is_empty.
len(vec) == Len(vec)
is_empty(vec) == Len(vec) = 0

\* Vec::get_value::<T>(index): Ok(None) past the end, an error when the
\* element is not a T.
get_value(vec, T, index) ==
    LET value == get(vec, index)
    IN IF ~value.some THEN [ok |-> TRUE, got |-> None]
       ELSE IF ~from_value(T, value.val).some THEN [ok |-> FALSE, got |-> None]
       ELSE [ok |-> TRUE, got |-> Some(from_value(T, value.val).val)]

VecPush ==
    /\ Len(inner) < MaxVec
    /\ \E value \in Values :
          /\ inner' = push(inner, value)
          /\ vec_pushed' = Append(vec_pushed, value)
          /\ result' = [op |-> "push", ok |-> TRUE]
    /\ UNCHANGED <<builder_vars, load_vars, walk_vars>>

VecPushValue ==
    /\ Len(inner) < MaxVec
    /\ \E native \in Natives :
          IF to_value(native).some
          THEN /\ inner' = push(inner, to_value(native).val)
               /\ vec_pushed' = Append(vec_pushed, to_value(native).val)
               /\ result' = [op |-> "push_value", ok |-> TRUE]
          ELSE /\ result' = [op |-> "push_value", ok |-> FALSE]
               /\ UNCHANGED vec_vars
    /\ UNCHANGED <<builder_vars, load_vars, walk_vars>>

VecGetValue ==
    /\ \E T \in {"i64", "bool"}, index \in 0..MaxVec :
          LET out == get_value(inner, T, index)
          IN result' = [op |-> "get_value", type |-> T, index |-> index,
                        ok |-> out.ok, got |-> out.got]
    /\ UNCHANGED <<builder_vars, load_vars, vec_vars, walk_vars>>

VecLen ==
    /\ result' = [op |-> "len", ok |-> TRUE, len |-> len(inner),
                  is_empty |-> is_empty(inner)]
    /\ UNCHANGED <<builder_vars, load_vars, vec_vars, walk_vars>>

NextVec == VecPush \/ VecPushValue \/ VecGetValue \/ VecLen

\* push, push_value, get_value, len and is_empty on a Vec::new().
SpecVec == InitBuilder /\ [][NextVec]_vars

C33_Step ==
    /\ result'.op = "len" =>
          /\ result'.len = Len(vec_pushed)
          /\ result'.is_empty <=> (result'.len = 0)
    /\ result'.op = "get_value" =>
          LET i == result'.index
          IN IF i >= Len(vec_pushed)
             THEN result'.ok /\ result'.got = None
             ELSE LET native == from_value(result'.type, vec_pushed[i + 1])
                  IN native.some => result'.ok /\ result'.got = Some(native.val)

\* C33: on a Vec grown from Vec::new() by push and push_value, len is the
\* number of pushed values, is_empty holds iff len is 0, get_value(i) is
\* Some of the i-th pushed value (read at its own type) for every i < len and
\* Ok(None) for every i >= len.
C33_VecPushGet == [][C33_Step]_vars

\* C33 witness: after a push of an integer and a push_value of a bool,
\* get_value::<bool>(1) gave the bool.
C33_Witness ==
    /\ result.op = "get_value"
    /\ Len(vec_pushed) = 2
    /\ vec_pushed[1].value = "Integer"
    /\ result.index = 1
    /\ result.got = Some([type |-> "bool", bool |-> TRUE])

\* C34: in every reachable builder state, every entry offset -> hash of
\* functions_rev has a debug signature stored under that same hash, for the
\* functions of new_function and of new_instance_function.
C34_FunctionsRevHasSignature ==
    \A offset \in DOMAIN functions_rev :
        Has(DebugFunctions(debug), functions_rev[offset])

C35_Step ==
    (result'.op = "insert_meta" /\ ~result'.ok)
      => /\ rtti' = rtti
         /\ variant_rtti' = variant_rtti
         /\ functions' = functions
         /\ types' = types
         /\ DebugFunctions(debug') = DebugFunctions(debug)
         /\ meta' = meta

\* C35: whenever insert_meta returns an error, rtti, variant_rtti,
\* functions, types, the debug signatures and the meta table are as they were
\* before the call.
C35_InsertMetaAllOrNothing == [][C35_Step]_vars

C36_Step ==
    (/\ result'.op = "new_function"
     /\ ~result'.ok
     /\ result'.err.kind \in {"MissingLabel", "BaseOverflow", "OffsetOverflow"})
      => /\ instructions' = instructions
         /\ functions' = functions
         /\ functions_rev' = functions_rev
         /\ required_functions' = required_functions
         /\ label_count' = label_count

\* C36: when new_function fails with MissingLabel, BaseOverflow or
\* OffsetOverflow, the instructions, functions, functions_rev, the required
\* functions and label_count are as they were before the call.
C36_LabelFailureConfined == [][C36_Step]_vars

\* A source saved at time 0 and no cache file yet.
InitRace ==
    /\ InitPools
    /\ InitUnit
    /\ imports = EmptyMap
    /\ handles = 1
    /\ assemblies = << >>
    /\ uses = EmptyMap
    /\ loading = None
    /\ inner = << >>
    /\ vec_pushed = << >>
    /\ walk = None
    /\ yielded = << >>
    /\ \E x \in Texts : disk = [clock |-> 1, source |-> SourceFile(0, x), cache |-> Absent]
    /\ result = [op |-> "init", ok |-> TRUE]

\* Loads, edits of the source and reads of the cache from a directory that
\* holds no cache file.
SpecRace == InitRace /\ [][NextLoad]_vars

\* C37: a Unit that load returns from the cache is the unit of the contents
\* the source file has at that load, whatever edits of the source ran between
\* the steps of an earlier load.
C37_CachedUnitIsCurrent ==
    (result.op = "load" /\ result.ok /\ ~result.compiled)
      => result.unit = Compile(result.source.text)

\* C38: the functions list of a load is the list of the attribute-tagged
\* functions of its source, whether the Unit came from the cache or from a
\* build.
C38_FunctionsIndependentOfCache ==
    (result.op = "load" /\ result.ok)
      => result.functions = into_functions(result.source.text)

(***************************************************************************)
(* rune-cli/src/loader.rs: recurse_paths.  The directory tree under        *)
(* `first` is a node: a regular file with its extension, a directory with  *)
(* its entries in the order read_dir returns them, or a directory that     *)
(* cannot be read.  A path is the sequence of entry positions that leads   *)
(* from `first` to a node; every entry of a readable directory is read     *)
(* without error.                                                          *)
(***************************************************************************)

\* The most entries of a directory.
MaxEntries == 2

FileNode(ext) == [kind |-> "file", ext |-> ext]
DirNode(entries) == [kind |-> "dir", entries |-> entries]
DeniedNode == [kind |-> "denied"]

Leaves == {FileNode("rn"), FileNode("txt"), DeniedNode, DirNode(<< >>)}

\* Directories of files, empty directories and unreadable directories.
FlatDirs == {DirNode(entries) : entries \in UNION {[1..n -> Leaves] : n \in 1..MaxEntries}}

\* Directories whose first entry is such a directory, followed by files and
\* unreadable directories.
DeepDirs ==
    {DirNode(<<d>> \o rest) :
        d \in FlatDirs,
        rest \in UNION {[1..n -> {FileNode("rn"), DeniedNode}] : n \in 0..(MaxEntries - 1)}}

Trees == Leaves \cup FlatDirs \cup DeepDirs

RECURSIVE NodeAt(_, _)
\* The node a path leads to.
NodeAt(node, path) ==
    IF path = << >> THEN node ELSE NodeAt(node.entries[Head(path)], Tail(path))

\* Path::is_file.
is_file(node) == node.kind = "file"

\* fs::read_dir followed by `e.path()` of every entry: the paths of the
\* entries, None when the directory cannot be read.
read_dir(tree, path) ==
    LET node == NodeAt(tree, path)
    IN IF node.kind = "dir"
       THEN Some([i \in 1..Len(node.entries) |-> Append(path, i)])
       ELSE None

\* A queue that is taken from at its back.
pop_back(queue) ==
    IF queue = << >> THEN None
    ELSE Some([path |-> queue[Len(queue)], rest |-> SubSeq(queue, 1, Len(queue) - 1)])

\* VecDeque::pop_front.
pop_front(queue) ==
    IF queue = << >> THEN None ELSE Some([path |-> Head(queue), rest |-> Tail(queue)])

ItemOk(path) == [ok |-> TRUE, path |-> path]
ItemErr(path) == [ok |-> FALSE, path |-> path]

\* recurse_paths(recursive, first): the queue holds `first`.
RecursePaths ==
    /\ walk = None
    /\ \E recursive \in BOOLEAN, first \in Trees :
          walk' = Some([recursive |-> recursive, tree |-> first,
                        queue |-> << << >> >>, done |-> FALSE])
    /\ yielded' = << >>
    /\ result' = [op |-> "recurse_paths", ok |-> TRUE]
    /\ UNCHANGED <<builder_vars, load_vars, vec_vars>>

\* One turn of the `loop` in the closure of from_fn: `walk.done` is set when
\* the closure has returned None, `yielded` grows when it returns Some.
RecurseLoop ==
    /\ walk.some
    /\ ~walk.val.done
    /\ LET w == walk.val
           popped == pop_front(w.queue)
           path == popped.val.path
           rest == popped.val.rest
           d == read_dir(w.tree, path)
       IN IF ~popped.some
          THEN /\ walk' = Some([w EXCEPT !.done = TRUE])
               /\ UNCHANGED yielded
          ELSE IF ~w.recursive
          THEN /\ walk' = Some([w EXCEPT !.queue = rest])
               /\ yielded' = Append(yielded, ItemOk(path))
          ELSE IF is_file(NodeAt(w.tree, path))
          THEN /\ walk' = Some([w EXCEPT !.queue = rest])
               /\ yielded' = IF NodeAt(w.tree, path).ext = "rn"
                             THEN Append(yielded, ItemOk(path))
                             ELSE yielded
          ELSE IF ~d.some
          THEN /\ walk' = Some([w EXCEPT !.queue = rest])
               /\ yielded' = Append(yielded, ItemErr(path))
          ELSE /\ walk' = Some([w EXCEPT !.queue = rest \o d.val])
               /\ UNCHANGED yielded
    /\ result' = [op |-> "recurse_loop", ok |-> TRUE]
    /\ UNCHANGED <<builder_vars, load_vars, vec_vars>>

NextWalk == RecursePaths \/ RecurseLoop

\* An iterator of recurse_paths over any tree.
SpecWalk == InitBuilder /\ [][NextWalk]_vars

\* The iterator is created and polled until it returns None.
SpecWalkFair == SpecWalk /\ WF_vars(NextWalk)

RECURSIVE ChildrenOf(_, _)
\* The entries of the directories among `paths`, in order.
ChildrenOf(tree, paths) ==
    IF paths = << >> THEN << >>
    ELSE LET node == NodeAt(tree, Head(paths))
             own == IF node.kind = "dir"
                    THEN [i \in 1..Len(node.entries) |-> Append(Head(paths), i)]
                    ELSE << >>
         IN own \o ChildrenOf(tree, Tail(paths))

RECURSIVE LevelsFrom(_, _)
\* The paths of the tree level by level, from the level `paths` on.
LevelsFrom(tree, paths) ==
    IF paths = << >> THEN << >> ELSE paths \o LevelsFrom(tree, ChildrenOf(tree, paths))

\* What a recursive walk has to return: level by level, every `rn` file and
\* one error for every directory that cannot be read.
BreadthFirstItems(tree) ==
    LET all == LevelsFrom(tree, << << >> >>)
        kept == SelectSeq(all, LAMBDA p :
                    \/ NodeAt(tree, p).kind = "denied"
                    \/ NodeAt(tree, p).kind = "file" /\ NodeAt(tree, p).ext = "rn")
    IN [i \in 1..Len(kept) |->
           IF NodeAt(tree, kept[i]).kind = "file" THEN ItemOk(kept[i]) ELSE ItemErr(kept[i])]

WalkFinished ==
    /\ walk.some
    /\ walk.val.done
    /\ walk.val.queue = << >>
    /\ yielded = IF walk.val.recursive THEN BreadthFirstItems(walk.val.tree)
                 ELSE <<ItemOk(<< >>)>>

LoweredStatements(statements) ==
    [i \in 1..Len(statements) |->
        IF statements[i].stmt = "Local" THEN compile_local(statements[i]).ir
        ELSE compile_expr(statements[i].expr).ir]

\* C40: the instructions of the IrScope of a block, followed by its `last`
\* when there is one, are the lowered `let` and expression statements of the
\* block, each once and in source order, with the item declarations skipped.
C40_BlockKeepsOrder ==
    (result.op = "compile_block" /\ result.ok) =>
        result.ir.instructions
            \o (IF result.ir.last.some THEN <<result.ir.last.val>> ELSE << >>)
          = LoweredStatements(NonItems(result.arg.statements))

\* C40 witness: a block of a `let`, a terminated and an unterminated
\* expression was lowered to two instructions and a `last`.
C40_Witness ==
    /\ result.op = "compile_block"
    /\ result.ok
    /\ result.arg.statements =
          <<StmtLocal(PatPath(<<"x">>), ExprLit(1)), StmtExpr(ExprPath(<<"x">>), TRUE),
            StmtExpr(ExprLit(1), FALSE)>>
    /\ Len(result.ir.instructions) = 2
    /\ result.ir.last = Some([node |-> "Integer", integer |-> 1])

====
